---- MODULE Spec2Model ----
(***************************************************************************)
(* Telemint "numbers from a pool": the mint-voucher protocol (off-chain    *)
(* helpers of func/helpers, the collection that redeems vouchers) and the  *)
(* auction state machine every minted item runs.                           *)
(*                                                                         *)
(* Idealisations: a cell is the list of the fields stored into it, a hash  *)
(* is collision free (it wraps what it hashes), a signature names the key  *)
(* pair that made it and the digest it was made over.  Strings are         *)
(* sequences of characters.  Amounts and times are small integers.         *)
(***************************************************************************)
EXTENDS Integers, Sequences, FiniteSets, TLC

VARIABLES now, items, inflight, last, collection, backend

vars == <<now, items, inflight, last, collection, backend>>

\* ------------------------------------------------------------------ bounds
\* Time runs from 0 to MaxTime.
MaxTime == 4
\* Collection -> item messages that may be in flight together.
MaxInflight == 2
\* Vouchers the backend hands out in one run.
MaxIssued == 2
\* The largest maxRetries retryWithBackoff is called with.
MaxRetries == 2

\* ------------------------------------------------------ binary cell encoder
\* beginCell(): an empty builder. ok = FALSE stands for a builder whose store
\* call threw; every later call keeps it thrown.
BeginCell == [ok |-> TRUE, bits |-> <<>>, refs |-> <<>>]

\* A stored value that is absent (null / undefined Cell).
NoCell == [ok |-> TRUE, bits |-> <<[k |-> "null"]>>, refs |-> <<>>]

Thrown(b) == [b EXCEPT !.ok = FALSE]

\* storeUint range check; every number of the model is below 2^31.
FitsUint(n, w) == n >= 0 /\ (w >= 31 \/ n < 2 ^ w)

StoreUint(b, n, w) ==
    IF b.ok /\ FitsUint(n, w)
    THEN [b EXCEPT !.bits = Append(@, [k |-> "uint", w |-> w, n |-> n])]
    ELSE Thrown(b)

StoreInt(b, n, w) ==
    IF b.ok /\ (w >= 32 \/ (n >= 0 - 2 ^ (w - 1) /\ n < 2 ^ (w - 1)))
    THEN [b EXCEPT !.bits = Append(@, [k |-> "int", w |-> w, n |-> n])]
    ELSE Thrown(b)

StoreCoins(b, n) ==
    IF b.ok /\ n >= 0
    THEN [b EXCEPT !.bits = Append(@, [k |-> "coins", n |-> n])]
    ELSE Thrown(b)

StoreAddress(b, a) ==
    IF b.ok THEN [b EXCEPT !.bits = Append(@, [k |-> "addr", a |-> a])] ELSE b

StoreStringTail(b, s) ==
    IF b.ok THEN [b EXCEPT !.bits = Append(@, [k |-> "str", s |-> s])] ELSE b

\* storeStringTail(JSON.stringify(content)): the JSON text of a content object.
StoreJson(b, content) ==
    IF b.ok THEN [b EXCEPT !.bits = Append(@, [k |-> "json", j |-> content])] ELSE b

StoreBuffer(b, sg) ==
    IF b.ok THEN [b EXCEPT !.bits = Append(@, [k |-> "buf", sg |-> sg])] ELSE b

StoreRef(b, c) ==
    IF b.ok /\ c.ok /\ c # NoCell
    THEN [b EXCEPT !.refs = Append(@, c)]
    ELSE Thrown(b)

StoreMaybeRef(b, c) ==
    IF c = NoCell
    THEN StoreUint(b, 0, 1)
    ELSE StoreRef(StoreUint(b, 1, 1), c)

\* cell.hash(): the representation hash, collision free.
CellHash(c) == [repr |-> c]

\* ---------------------------------------------------------------- addresses
\* contractAddress(workchain, init): the hash of the state init.
ContractAddress(wc, init) == [wc |-> wc, hash |-> init]

CodeCell(name) == StoreStringTail(BeginCell, <<name>>)

\* The absent address (null / addr_none).
AddrNone == ContractAddress(0 - 1, [code |-> NoCell, data |-> NoCell])

\* blockchain.treasury(name): a wallet.
Treasury(name) ==
    ContractAddress(0, [code |-> CodeCell("wallet"), data |-> CodeCell(name)])

Deployer == Treasury("deployer")
Bidder1 == Treasury("bidder1")
Bidder2 == Treasury("bidder2")

Senders == {Deployer, Bidder1, Bidder2}

\* The wallet the tests name as royalty recipient.
RoyaltyReceiver == Treasury("royaltyReceiver")

\* Address.parse('EQAAAAAAAAAAAAAAAAAAAAAAAAAAAAAAAAAAAAAAAAAAAM9c'): the
\* address whose hash is all zeros.
ZeroAddress == ContractAddress(0, [code |-> NoCell, data |-> NoCell])

\* ------------------------------------------------------------------- crypto
\* keyPairFromSeed: the collection's key pair, and a stranger's.
CollectionKey == [secretKey |-> "sk_collection", publicKey |-> 11]
StrangerKey == [secretKey |-> "sk_stranger", publicKey |-> 22]

KeyPairs == {CollectionKey, StrangerKey}

PublicKeyOf(sk) == (CHOOSE kp \in KeyPairs : kp.secretKey = sk).publicKey

\* sign(hash, privateKey) of @ton/crypto.
Sign(h, sk) == [pk |-> PublicKeyOf(sk), digest |-> h]

\* Buffer.alloc(64, 0)
ZeroSignature == [pk |-> 0, digest |-> CellHash(BeginCell)]

\* check_signature(hash, signature, public_key)
CheckSignature(h, sg, pk) == sg.pk = pk /\ sg.digest = h

\* ------------------------------------------------------------------- names
N123456 == <<"1", "2", "3", "4", "5", "6">>
N777 == <<"7", "7", "7">>

Names == {N123456, N777}

\* sha256 over the model's strings: each string has its own digest.
Sha256Table == <<N123456, N777>>

stringHash(s) == CHOOSE i \in 1..Len(Sha256Table) : Sha256Table[i] = s

\* ------------------------------------------------------------ off-chain helpers
\* An optional number is <<>> (undefined) or <<n>>.
OrDefault(x, d) == IF x = <<>> THEN d ELSE x[1]

\* A variant that stores min_extend_time where min_bid_step belongs, and back.
createAuctionConfig_stepExtend(params) ==
    StoreUint(
      StoreUint(
        StoreUint(
          StoreCoins(
            StoreCoins(
              StoreAddress(BeginCell, params.beneficiaryAddress),
              params.initialMinBid),
            OrDefault(params.maxBid, 0)),
          OrDefault(params.minExtendTime, 300), 8),
        OrDefault(params.minBidStep, 5), 32),
      OrDefault(params.duration, 86400), 32)

\* A variant that stores no max_bid, whatever is asked for.
createAuctionConfig_unbounded(params) ==
    StoreUint(
      StoreUint(
        StoreUint(
          StoreCoins(
            StoreCoins(
              StoreAddress(BeginCell, params.beneficiaryAddress),
              params.initialMinBid),
            0),
          OrDefault(params.minBidStep, 5), 8),
        OrDefault(params.minExtendTime, 300), 32),
      OrDefault(params.duration, 86400), 32)

\* A variant that stores duration where min_extend_time belongs, and back.
createAuctionConfig_extendDuration(params) ==
    StoreUint(
      StoreUint(
        StoreUint(
          StoreCoins(
            StoreCoins(
              StoreAddress(BeginCell, params.beneficiaryAddress),
              params.initialMinBid),
            OrDefault(params.maxBid, 0)),
          OrDefault(params.minBidStep, 5), 8),
        OrDefault(params.duration, 86400), 32),
      OrDefault(params.minExtendTime, 300), 32)

\* A variant that stores max_bid where initial_min_bid belongs, and back.
createAuctionConfig_swapped(params) ==
    StoreUint(
      StoreUint(
        StoreUint(
          StoreCoins(
            StoreCoins(
              StoreAddress(BeginCell, params.beneficiaryAddress),
              OrDefault(params.maxBid, 0)),
            params.initialMinBid),
          OrDefault(params.minBidStep, 5), 8),
        OrDefault(params.minExtendTime, 300), 32),
      OrDefault(params.duration, 86400), 32)

\* createAuctionConfig(params): beneficiary, initial_min_bid, max_bid,
\* min_bid_step, min_extend_time, duration; the optional ones default to
\* 0, 5, 300 and 86400.
createAuctionConfig(params) ==
    StoreUint(
      StoreUint(
        StoreUint(
          StoreCoins(
            StoreCoins(
              StoreAddress(BeginCell, params.beneficiaryAddress),
              params.initialMinBid),
            OrDefault(params.maxBid, 0)),
          OrDefault(params.minBidStep, 5), 8),
        OrDefault(params.minExtendTime, 300), 32),
      OrDefault(params.duration, 86400), 32)

\* A variant that leaves the duration to its default.
DirectMintParams_defaultDuration(beneficiary, mintPrice) ==
    [beneficiaryAddress |-> beneficiary, initialMinBid |-> mintPrice,
     maxBid |-> <<mintPrice>>, minBidStep |-> <<1>>,
     minExtendTime |-> <<0>>, duration |-> <<>>]

\* createDirectMintAuctionConfig({beneficiaryAddress, mintPrice})
DirectMintParams(beneficiary, mintPrice) ==
    [beneficiaryAddress |-> beneficiary, initialMinBid |-> mintPrice,
     maxBid |-> <<mintPrice>>, minBidStep |-> <<1>>,
     minExtendTime |-> <<0>>, duration |-> <<0>>]

createDirectMintAuctionConfig(beneficiary, mintPrice) ==
    createAuctionConfig(DirectMintParams(beneficiary, mintPrice))

\* createRoyaltyParams({numerator, denominator, destination})
\* A variant that stores the denominator before the numerator.
createRoyaltyParams_swapped(params) ==
    IF params.numerator < 0 \/ params.numerator > 65535
    THEN Thrown(BeginCell)
    ELSE IF params.denominator < 0 \/ params.denominator > 65535
    THEN Thrown(BeginCell)
    ELSE StoreAddress(
           StoreUint(StoreUint(BeginCell, params.denominator, 16),
                     params.numerator, 16),
           params.destination)

createRoyaltyParams(params) ==
    IF params.numerator < 0 \/ params.numerator > 65535
    THEN Thrown(BeginCell)
    ELSE IF params.denominator < 0 \/ params.denominator > 65535
    THEN Thrown(BeginCell)
    ELSE StoreAddress(
           StoreUint(StoreUint(BeginCell, params.numerator, 16),
                     params.denominator, 16),
           params.destination)

NoRoyaltyParams(destination) ==
    [numerator |-> 0, denominator |-> 100, destination |-> destination]

createNoRoyaltyParams(destination) ==
    createRoyaltyParams(NoRoyaltyParams(destination))

\* A variant that never stores the forced sender.
createRestrictions_noForce(params) ==
    IF params.rewriteSenderAddress # AddrNone
    THEN StoreAddress(StoreUint(StoreUint(BeginCell, 0, 1), 1, 1),
                      params.rewriteSenderAddress)
    ELSE StoreUint(StoreUint(BeginCell, 0, 1), 0, 1)

\* createRestrictions({forceSenderAddress?, rewriteSenderAddress?}); an
\* address left out is AddrNone.
createRestrictions(params) ==
    LET force == IF params.forceSenderAddress # AddrNone
                 THEN StoreAddress(StoreUint(BeginCell, 1, 1),
                                   params.forceSenderAddress)
                 ELSE StoreUint(BeginCell, 0, 1)
    IN  IF params.rewriteSenderAddress # AddrNone
        THEN StoreAddress(StoreUint(force, 1, 1), params.rewriteSenderAddress)
        ELSE StoreUint(force, 0, 1)

createForceSenderRestrictions(senderAddress) ==
    createRestrictions([forceSenderAddress |-> senderAddress,
                        rewriteSenderAddress |-> AddrNone])

\* createNftContent(params): tag 0 and the JSON text of the content.
createNftContent(params) ==
    StoreJson(StoreUint(BeginCell, 0, 8), params)

\* createNumberNftContent(number)
createNumberNftContent(number) ==
    createNftContent([name |-> <<"Number ">> \o number,
                      description |-> <<"Telegram number ">> \o number,
                      image |-> <<>>,
                      number |-> number])

\* A variant that stores validTill before validSince.
createUnsignedDeployMessageV2_window(params) ==
    StoreMaybeRef(
      StoreMaybeRef(
        StoreRef(
          StoreRef(
            StoreStringTail(
              StoreUint(
                StoreUint(
                  StoreUint(
                    StoreUint(BeginCell, params.subwalletId, 32),
                    params.validTill, 32),
                  params.validSince, 32),
                Len(params.tokenName), 8),
              params.tokenName),
            params.content),
          params.auctionConfig),
        params.royaltyParams),
      params.restrictions)

\* A variant that stores subwallet id 0 whatever it is given.
createUnsignedDeployMessageV2_subwallet(params) ==
    StoreMaybeRef(
      StoreMaybeRef(
        StoreRef(
          StoreRef(
            StoreStringTail(
              StoreUint(
                StoreUint(
                  StoreUint(
                    StoreUint(BeginCell, 0, 32),
                    params.validSince, 32),
                  params.validTill, 32),
                Len(params.tokenName), 8),
              params.tokenName),
            params.content),
          params.auctionConfig),
        params.royaltyParams),
      params.restrictions)

\* createUnsignedDeployMessageV2(params)
createUnsignedDeployMessageV2(params) ==
    StoreMaybeRef(
      StoreMaybeRef(
        StoreRef(
          StoreRef(
            StoreStringTail(
              StoreUint(
                StoreUint(
                  StoreUint(
                    StoreUint(BeginCell, params.subwalletId, 32),
                    params.validSince, 32),
                  params.validTill, 32),
                Len(params.tokenName), 8),
              params.tokenName),
            params.content),
          params.auctionConfig),
        params.royaltyParams),
      params.restrictions)

\* A variant that signs the message itself, not its hash.
signDeployMessage_unhashed(unsignedMessage, privateKey) ==
    Sign(unsignedMessage, privateKey)

\* signDeployMessage(unsignedMessage, privateKey)
signDeployMessage(unsignedMessage, privateKey) ==
    Sign(CellHash(unsignedMessage), privateKey)

\* createSignedDeployMessageV2(unsignedMessage, signature)
createSignedDeployMessageV2(unsignedMessage, signature) ==
    StoreRef(
      StoreBuffer(StoreUint(BeginCell, 1178019995, 32), signature),
      unsignedMessage)

\* ------------------------------------------------------------- item address
\* nftItemConfigToCell(config)
nftItemConfigToCell(config) ==
    StoreAddress(StoreUint(BeginCell, config.itemIndex, 256),
                 config.collectionAddress)

\* A variant that answers the collection's address.
NftItemAddress_collection(config, code, workchain) ==
    config.collectionAddress

\* NftItem.createFromConfig(config, code, workchain).address
NftItemAddress(config, code, workchain) ==
    ContractAddress(workchain,
        [code |-> code,
         data |-> StoreMaybeRef(StoreRef(BeginCell, nftItemConfigToCell(config)),
                                NoCell)])

\* The collection an item answers to: the collectionAddress of the config
\* cell in the state init its address was derived from.
CollectionOfItem(a) == a.hash.data.refs[1].bits[2].a

\* ------------------------------------------------------------ the collection
\* compile('NftCollectionNoDns'), compile('NftItemNoDnsCheap')
CollectionCode == CodeCell("NftCollectionNoDns")
ItemCode == CodeCell("NftItemNoDnsCheap")

\* The configuration the test suites deploy the collection with.
CollectionConfig ==
    [touched |-> FALSE,
     subwalletId |-> 0,
     publicKey |-> CollectionKey.publicKey,
     collectionContent |-> StoreStringTail(BeginCell, <<"collection">>),
     nftItemCode |-> ItemCode,
     fullDomain |-> <<"t", "e", "s", "t", ".", "t", "o", "n">>,
     royaltyParams |-> createNoRoyaltyParams(Deployer)]

\* nftCollectionConfigToCell(config)
nftCollectionConfigToCell(config) ==
    StoreRef(
      StoreRef(
        StoreRef(
          StoreRef(
            StoreUint(
              StoreUint(
                StoreInt(BeginCell, IF config.touched THEN 0 - 1 ELSE 0, 1),
                config.subwalletId, 32),
              config.publicKey, 256),
            config.collectionContent),
          config.nftItemCode),
        StoreStringTail(StoreUint(BeginCell, Len(config.fullDomain), 8),
                        config.fullDomain)),
      config.royaltyParams)

\* NftCollection.createFromConfig(config, code).address
CollectionAddress ==
    ContractAddress(0, [code |-> CollectionCode,
                        data |-> nftCollectionConfigToCell(CollectionConfig)])

\* A variant that writes the item code where the collection content belongs,
\* and back.
DeployedData_swapped ==
    LET c == nftCollectionConfigToCell(CollectionConfig)
    IN  [c EXCEPT !.refs[1] = c.refs[2], !.refs[2] = c.refs[1]]

\* The data NftCollection.createFromConfig deploys the collection with.
DeployedData == nftCollectionConfigToCell(CollectionConfig)

\* The collection after deployment: its data cell and its balance.
DeployedCollection == [data |-> DeployedData, balance |-> 0]

\* MINTED_NUMBERS is empty at start; issued is the history of the vouchers
\* handed out.
BackendInit == [minted |-> {}, issued |-> {}]

\* The fields of a collection data cell, read in the order
\* nftCollectionConfigToCell writes them.
CollectionData(c) ==
    [touched |-> c.bits[1].n # 0,
     subwalletId |-> c.bits[2].n,
     publicKey |-> c.bits[3].n,
     collectionContent |-> c.refs[1],
     nftItemCode |-> c.refs[2],
     fullDomain |-> c.refs[3].bits[2].s,
     royaltyParams |-> c.refs[4]]

\* ------------------------------------------------- decoding (wire layouts)
\* Auction Configuration cell: beneficiary, initialMinBid, maxBid,
\* minBidStepPercent, minExtendSeconds, durationSeconds.
ParseAuctionConfig(c) ==
    [beneficiary |-> c.bits[1].a,
     initialMinBid |-> c.bits[2].n,
     maxBid |-> c.bits[3].n,
     minBidStep |-> c.bits[4].n,
     minExtendTime |-> c.bits[5].n,
     duration |-> c.bits[6].n]

\* Royalty cell: numerator, denominator, destination.
ParseRoyalty(c) ==
    [numerator |-> c.bits[1].n,
     denominator |-> c.bits[2].n,
     destination |-> c.bits[3].a]

\* Restrictions cell: hasForceSender [+ address], hasRewriteSender [+ address].
ParseRestrictions(c) ==
    LET hasForce == c.bits[1].n = 1
        at == IF hasForce THEN 3 ELSE 2
    IN  [forceSender |-> IF hasForce THEN c.bits[2].a ELSE AddrNone,
         rewriteSender |-> IF c.bits[at].n = 1 THEN c.bits[at + 1].a
                           ELSE AddrNone]

\* Unsigned Voucher: subPoolId, validSince, validTill, nameLen, name,
\* ref Content, ref AuctionConfig, optional ref Royalty, optional ref
\* Restrictions. The name is the nameLen characters after the length.
ParseVoucher(c) ==
    LET hasRoyalty == c.bits[6].n = 1
        hasRestrictions == c.bits[7].n = 1
        stored == c.bits[5].s
        nameLen == c.bits[4].n
    IN  [subPoolId |-> c.bits[1].n,
         validSince |-> c.bits[2].n,
         validTill |-> c.bits[3].n,
         wellFormed |-> nameLen <= Len(stored),
         name |-> SubSeq(stored, 1, nameLen),
         content |-> c.refs[1],
         auctionConfig |-> c.refs[2],
         royaltyParams |-> IF hasRoyalty THEN c.refs[3] ELSE NoCell,
         restrictions |-> IF hasRestrictions
                          THEN c.refs[IF hasRoyalty THEN 4 ELSE 3]
                          ELSE NoCell]

\* ----------------------------------------- the collection: voucher redeeming
\* The address of the item of a given index (get_nft_address_by_index).
ItemAddressByIndex(index) ==
    NftItemAddress([itemIndex |-> index, collectionAddress |-> CollectionAddress],
                   CollectionConfig.nftItemCode, 0)

\* The collection's answer to {signature, voucher, payment} from `sender` at
\* time t: the error it rejects with ("ok" when it accepts) and the
\* initialization message it forwards (<<>> when none).
MintError(t, sender, value, signature, unsigned) ==
    LET v == ParseVoucher(unsigned)
        r == IF v.restrictions = NoCell
             THEN [forceSender |-> AddrNone, rewriteSender |-> AddrNone]
             ELSE ParseRestrictions(v.restrictions)
    IN  IF ~CheckSignature(CellHash(unsigned), signature,
                           CollectionConfig.publicKey)
        THEN "InvalidSignature"
        ELSE IF ~v.wellFormed THEN "MalformedEncoding"
        ELSE IF t < v.validSince THEN "VoucherNotYetValid"
        ELSE IF t > v.validTill THEN "VoucherExpired"
        ELSE IF v.subPoolId # CollectionConfig.subwalletId THEN "WrongSubPool"
        ELSE IF r.forceSender # AddrNone /\ r.forceSender # sender
        THEN "SenderNotAllowed"
        ELSE IF value < ParseAuctionConfig(v.auctionConfig).initialMinBid
        THEN "InsufficientFunds"
        ELSE "ok"

DeployMessage(sender, value, unsigned) ==
    LET v == ParseVoucher(unsigned)
        r == IF v.restrictions = NoCell
             THEN [forceSender |-> AddrNone, rewriteSender |-> AddrNone]
             ELSE ParseRestrictions(v.restrictions)
    IN  [to |-> ItemAddressByIndex(stringHash(v.name)),
         from |-> CollectionAddress,
         bidder |-> IF r.rewriteSender # AddrNone THEN r.rewriteSender
                    ELSE sender,
         bid |-> value,
         tokenName |-> v.name,
         content |-> v.content,
         auctionConfig |-> v.auctionConfig,
         royaltyParams |-> IF v.royaltyParams = NoCell
                           THEN CollectionConfig.royaltyParams
                           ELSE v.royaltyParams]

CollectionReceive(t, sender, value, body) ==
    LET signature == body.bits[2].sg
        unsigned == body.refs[1]
        err == MintError(t, sender, value, signature, unsigned)
    IN  [err |-> err,
         out |-> IF err = "ok" THEN <<DeployMessage(sender, value, unsigned)>>
                 ELSE <<>>]

\* ------------------------------------------------------------- the item
\* The addresses items can live at: one per name.
ItemAddrs == {ItemAddressByIndex(stringHash(n)) : n \in Names}

\* An item before its first initialization message: the address is
\* computable, nothing is stored. directSold and seller are history, not
\* storage: directSold records that the item was sold by a direct-sale
\* initialization, seller who owned the item when its open auction started
\* (nobody for the auction of a mint).
Uninitialized ==
    [init |-> FALSE, index |-> 0, collection |-> AddrNone, tokenName |-> <<>>,
     content |-> NoCell, auctionConfig |-> NoCell, royaltyParams |-> NoCell,
     owner |-> AddrNone, open |-> FALSE,
     bidder |-> AddrNone, bid |-> 0, bidTs |-> 0, endTime |-> 0,
     directSold |-> FALSE, seller |-> AddrNone]

\* The three states of the item state machine.
IsActive(it) == it.init /\ it.open
IsOwned(it) == it.init /\ ~it.open

\* initialMinBid = maxBid and durationSeconds = 0: the direct-sale variant.
IsDirectSale(cfg) == cfg.initialMinBid = cfg.maxBid /\ cfg.duration = 0

\* Proceeds of a concluded auction: the royalty share to the royalty
\* destination, the rest to the beneficiary.
\* A variant that pays the beneficiary the whole amount on top of the
\* royalty share.
Proceeds_gross(it, amount) ==
    LET cfg == ParseAuctionConfig(it.auctionConfig)
        roy == ParseRoyalty(it.royaltyParams)
        share == IF roy.denominator = 0 THEN 0
                 ELSE (amount * roy.numerator) \div roy.denominator
    IN  IF share > 0
        THEN <<[to |-> roy.destination, amount |-> share],
               [to |-> cfg.beneficiary, amount |-> amount]>>
        ELSE <<[to |-> cfg.beneficiary, amount |-> amount]>>

Proceeds(it, amount) ==
    LET cfg == ParseAuctionConfig(it.auctionConfig)
        roy == ParseRoyalty(it.royaltyParams)
        share == IF roy.denominator = 0 THEN 0
                 ELSE (amount * roy.numerator) \div roy.denominator
    IN  IF share > 0
        THEN <<[to |-> roy.destination, amount |-> share],
               [to |-> cfg.beneficiary, amount |-> amount - share]>>
        ELSE <<[to |-> cfg.beneficiary, amount |-> amount]>>

\* The auction is over without a transfer: no auction is left, and the
\* item stays as ownerless as it was while the auction was open.
Closed(it) ==
    [it EXCEPT !.open = FALSE, !.seller = AddrNone,
               !.bidder = AddrNone, !.bid = 0, !.bidTs = 0, !.endTime = 0]

\* The auction concludes: the winner owns the item, no auction is left.
Concluded(it, winner) == [Closed(it) EXCEPT !.owner = winner]

\* Auction expiry, evaluated when an interaction finds now > auctionEnd.
Expired(it, t) == it.init /\ it.open /\ t > it.endTime

\* A variant in which an auction that ends without a bid hands the item back
\* to the wallet that started it.
Expire_toSeller(it, t) ==
    IF ~Expired(it, t) THEN it
    ELSE IF it.bidder # AddrNone THEN Concluded(it, it.bidder)
    ELSE Concluded(it, it.seller)

Expire(it, t) ==
    IF ~Expired(it, t) THEN it
    ELSE IF it.bidder # AddrNone THEN Concluded(it, it.bidder)
    ELSE Closed(it)

ExpiryProceeds(it, t) ==
    IF Expired(it, t) /\ it.bidder # AddrNone THEN Proceeds(it, it.bid)
    ELSE <<>>

\* get_telemint_token_name
getTelemintTokenName(it) == it.tokenName

\* A variant that lets every initialization message set the item anew.
ItemInit_overwrite(it, msg, t) ==
    LET cfg == ParseAuctionConfig(msg.auctionConfig)
        fresh == [init |-> TRUE,
                  index |-> stringHash(msg.tokenName),
                  collection |-> msg.from,
                  tokenName |-> msg.tokenName,
                  content |-> msg.content,
                  auctionConfig |-> msg.auctionConfig,
                  royaltyParams |-> msg.royaltyParams,
                  owner |-> AddrNone, open |-> TRUE,
                  bidder |-> AddrNone, bid |-> 0, bidTs |-> 0,
                  endTime |-> t + cfg.duration,
                  directSold |-> IsDirectSale(cfg), seller |-> AddrNone]
    IN  IF IsDirectSale(cfg)
        THEN [it |-> Concluded(fresh, msg.bidder), err |-> "ok",
              out |-> Proceeds(fresh, msg.bid)]
        ELSE [it |-> fresh, err |-> "ok", out |-> <<>>]

\* The initialization message of the collection reaching the item at time t:
\* [it |-> the item after, err, out |-> the payments made].
ItemInit(it, msg, t) ==
    IF msg.from # CollectionOfItem(msg.to)
    THEN [it |-> it, err |-> "NotFromCollection", out |-> <<>>]
    ELSE IF it.init
    THEN [it |-> it, err |-> "AlreadyInitialized", out |-> <<>>]
    ELSE LET cfg == ParseAuctionConfig(msg.auctionConfig)
             fresh == [init |-> TRUE,
                       index |-> stringHash(msg.tokenName),
                       collection |-> msg.from,
                       tokenName |-> msg.tokenName,
                       content |-> msg.content,
                       auctionConfig |-> msg.auctionConfig,
                       royaltyParams |-> msg.royaltyParams,
                       owner |-> AddrNone, open |-> TRUE,
                       bidder |-> AddrNone, bid |-> 0, bidTs |-> 0,
                       endTime |-> t + cfg.duration,
                       directSold |-> IsDirectSale(cfg), seller |-> AddrNone]
         IN  IF IsDirectSale(cfg)
             THEN [it |-> Concluded(fresh, msg.bidder), err |-> "ok",
                   out |-> Proceeds(fresh, msg.bid)]
             ELSE [it |-> fresh, err |-> "ok", out |-> <<>>]

\* The least amount a bid must reach: max(initialMinBid, previousBid *
\* (100 + minBidStepPercent) / 100), compared without rounding.
BidReachesThreshold(it, amount) ==
    LET cfg == ParseAuctionConfig(it.auctionConfig)
    IN  /\ amount >= cfg.initialMinBid
        /\ amount * 100 >= it.bid * (100 + cfg.minBidStep)

\* A variant that keeps the outbid amount.
Refund_none(it) == <<>>

\* What an accepted bid returns: the recorded bid, in full, to its bidder.
Refund(it) ==
    IF it.bidder # AddrNone
    THEN <<[to |-> it.bidder, amount |-> it.bid]>>
    ELSE <<>>

\* A variant in which every accepted bid sets the end to the time of the bid
\* plus the extension window.
ItemBid_restart(it, t, sender, value) ==
    IF ~it.init THEN [it |-> it, err |-> "NotInitialized", out |-> <<>>]
    ELSE IF Expired(it, t)
    THEN [it |-> Expire(it, t), err |-> "AuctionEnded",
          out |-> ExpiryProceeds(it, t)]
    ELSE IF ~it.open THEN [it |-> it, err |-> "NoAuction", out |-> <<>>]
    ELSE IF ~BidReachesThreshold(it, value)
    THEN [it |-> it, err |-> "BidTooLow", out |-> <<>>]
    ELSE LET cfg == ParseAuctionConfig(it.auctionConfig)
             refund == Refund(it)
             placed == [it EXCEPT !.bidder = sender, !.bid = value,
                                  !.bidTs = t,
                                  !.endTime = t + cfg.minExtendTime]
         IN  IF cfg.maxBid > 0 /\ value >= cfg.maxBid
             THEN [it |-> Concluded(placed, sender), err |-> "ok",
                   out |-> refund \o Proceeds(placed, value)]
             ELSE [it |-> placed, err |-> "ok", out |-> refund]

\* A payment with an empty body: a bid.
ItemBid(it, t, sender, value) ==
    IF ~it.init THEN [it |-> it, err |-> "NotInitialized", out |-> <<>>]
    ELSE IF Expired(it, t)
    THEN [it |-> Expire(it, t), err |-> "AuctionEnded",
          out |-> ExpiryProceeds(it, t)]
    ELSE IF ~it.open THEN [it |-> it, err |-> "NoAuction", out |-> <<>>]
    ELSE IF ~BidReachesThreshold(it, value)
    THEN [it |-> it, err |-> "BidTooLow", out |-> <<>>]
    ELSE LET cfg == ParseAuctionConfig(it.auctionConfig)
             refund == Refund(it)
             placed == [it EXCEPT !.bidder = sender, !.bid = value,
                                  !.bidTs = t,
                                  !.endTime = IF t + cfg.minExtendTime > @
                                              THEN t + cfg.minExtendTime
                                              ELSE @]
         IN  IF cfg.maxBid > 0 /\ value >= cfg.maxBid
             THEN [it |-> Concluded(placed, sender), err |-> "ok",
                   out |-> refund \o Proceeds(placed, value)]
             ELSE [it |-> placed, err |-> "ok", out |-> refund]

\* A variant of the start of an auction that keeps the owner stored while
\* the auction is open.
ItemStartAuction_keepOwner(it, t, sender, config) ==
    IF ~it.init THEN [it |-> it, err |-> "NotInitialized", out |-> <<>>]
    ELSE IF Expired(it, t)
    THEN [it |-> Expire(it, t), err |-> "AuctionEnded",
          out |-> ExpiryProceeds(it, t)]
    ELSE IF it.open THEN [it |-> it, err |-> "AuctionActive", out |-> <<>>]
    ELSE IF sender # it.owner
    THEN [it |-> it, err |-> "NotAuthorized", out |-> <<>>]
    ELSE [it |-> [it EXCEPT !.auctionConfig = config,
                            !.seller = it.owner,
                            !.open = TRUE, !.bidder = AddrNone, !.bid = 0,
                            !.bidTs = 0,
                            !.endTime = t + ParseAuctionConfig(config).duration],
          err |-> "ok", out |-> <<>>]

\* op::teleitem_start_auction from the current owner of an owned item.
\* While the auction is open the item has no owner (spec 3: ownerAddress is
\* absent while an auction is open).
ItemStartAuction(it, t, sender, config) ==
    IF ~it.init THEN [it |-> it, err |-> "NotInitialized", out |-> <<>>]
    ELSE IF Expired(it, t)
    THEN [it |-> Expire(it, t), err |-> "AuctionEnded",
          out |-> ExpiryProceeds(it, t)]
    ELSE IF it.open THEN [it |-> it, err |-> "AuctionActive", out |-> <<>>]
    ELSE IF sender # it.owner
    THEN [it |-> it, err |-> "NotAuthorized", out |-> <<>>]
    ELSE [it |-> [it EXCEPT !.auctionConfig = config,
                            !.owner = AddrNone, !.seller = it.owner,
                            !.open = TRUE, !.bidder = AddrNone, !.bid = 0,
                            !.bidTs = 0,
                            !.endTime = t + ParseAuctionConfig(config).duration],
          err |-> "ok", out |-> <<>>]

\* op::teleitem_cancel_auction: the beneficiary or the owner aborts an
\* auction nobody has bid in; the item is left without an auction and
\* without a transfer.
ItemCancel(it, t, sender) ==
    IF ~it.init THEN [it |-> it, err |-> "NotInitialized", out |-> <<>>]
    ELSE IF Expired(it, t)
    THEN [it |-> Expire(it, t), err |-> "AuctionEnded",
          out |-> ExpiryProceeds(it, t)]
    ELSE IF ~it.open THEN [it |-> it, err |-> "NoAuction", out |-> <<>>]
    ELSE IF sender \notin {ParseAuctionConfig(it.auctionConfig).beneficiary,
                           it.owner}
    THEN [it |-> it, err |-> "NotAuthorized", out |-> <<>>]
    ELSE IF it.bidder # AddrNone
    THEN [it |-> it, err |-> "AuctionHasBids", out |-> <<>>]
    ELSE [it |-> Closed(it), err |-> "ok", out |-> <<>>]

\* op::nft_cmd_transfer: the current owner of an item with no live auction
\* names the new owner.
ItemTransfer(it, t, sender, newOwner) ==
    IF ~it.init THEN [it |-> it, err |-> "NotInitialized", out |-> <<>>]
    ELSE IF Expired(it, t)
    THEN [it |-> Expire(it, t), err |-> "AuctionEnded",
          out |-> ExpiryProceeds(it, t)]
    ELSE IF it.open THEN [it |-> it, err |-> "AuctionActive", out |-> <<>>]
    ELSE IF sender # it.owner
    THEN [it |-> it, err |-> "NotAuthorized", out |-> <<>>]
    ELSE [it |-> [it EXCEPT !.owner = newOwner], err |-> "ok", out |-> <<>>]

\* The bodies of sendStartAuction, sendCancelAuction, sendTransfer and sendBid.
\* A variant with the operation code the tests send for a start.
StartAuctionBody_testOp(config) ==
    StoreRef(StoreUint(StoreUint(BeginCell, 1499400124, 32), 0, 64), config)

StartAuctionBody(config) ==
    StoreRef(StoreUint(StoreUint(BeginCell, 1215991425, 32), 0, 64), config)

\* A variant of the bid body that carries a start-auction request.
BidBody_startAuction ==
    StartAuctionBody(createAuctionConfig(
      [beneficiaryAddress |-> Deployer, initialMinBid |-> 100, maxBid |-> <<>>,
       minBidStep |-> <<5>>, minExtendTime |-> <<1>>, duration |-> <<2>>]))

\* A variant with the operation code the tests send for a cancel.
CancelBody_testOp == StoreUint(StoreUint(BeginCell, 924204240, 32), 0, 64)

CancelBody == StoreUint(StoreUint(BeginCell, 924203182, 32), 0, 64)

\* A variant that stores the response destination where the new owner
\* belongs, and back.
TransferBody_responseFirst(newOwner, responseDestination, customPayload, forwardAmount, forwardPayload) ==
    StoreMaybeRef(
      StoreCoins(
        StoreMaybeRef(
          StoreAddress(
            StoreAddress(
              StoreUint(StoreUint(BeginCell, 1607220500, 32), 0, 64),
              responseDestination),
            newOwner),
          customPayload),
        forwardAmount),
      forwardPayload)

\* A variant that carries the operation code of a cancel.
TransferBody_cancelOp(newOwner, responseDestination, customPayload, forwardAmount, forwardPayload) ==
    StoreMaybeRef(
      StoreCoins(
        StoreMaybeRef(
          StoreAddress(
            StoreAddress(
              StoreUint(StoreUint(BeginCell, 924203182, 32), 0, 64),
              newOwner),
            responseDestination),
          customPayload),
        forwardAmount),
      forwardPayload)

TransferBody(newOwner, responseDestination, customPayload, forwardAmount, forwardPayload) ==
    StoreMaybeRef(
      StoreCoins(
        StoreMaybeRef(
          StoreAddress(
            StoreAddress(
              StoreUint(StoreUint(BeginCell, 1607220500, 32), 0, 64),
              newOwner),
            responseDestination),
          customPayload),
        forwardAmount),
      forwardPayload)

BidBody == BeginCell

\* The item's message handler for wallet messages: an empty body is a bid,
\* a body is dispatched on its operation code.
\* The text of a top-up comment.
TopupComment == <<"#", "t", "o", "p", "u", "p">>

\* A variant that sends no comment at all: a plain payment.
TopupBody_plain == BeginCell

\* A variant that puts a 32-bit zero tag before the comment.
TopupBody_tagged == StoreStringTail(StoreUint(BeginCell, 0, 32), TopupComment)

\* beginCell().storeStringTail('#topup').endCell()
TopupBody == StoreStringTail(BeginCell, TopupComment)

\* Operation tags no handler of the item is written for: the tags the tests
\* send for cancel and for start auction.
UnknownOps == {924204240, 1499400124}

\* A variant that sends the cancel message whatever the tag.
UnknownBody_cancel(op) == CancelBody

\* beginCell().storeUint(op, 32).storeUint(0, 64).endCell()
UnknownBody(op) == StoreUint(StoreUint(BeginCell, op, 32), 0, 64)

\* A top-up: the value stays with the item and nothing of its state changes.
\* An item that has an owner accepts it from the owner only.
ItemTopup(it, t, sender, value) ==
    IF it.init /\ ~it.open /\ it.owner # AddrNone /\ sender # it.owner
    THEN [it |-> it, err |-> "ForbiddenTopup", out |-> <<>>]
    ELSE [it |-> it, err |-> "ok", out |-> <<>>]

ItemReceive(it, t, sender, value, body) ==
    IF body.bits = <<>> THEN ItemBid(it, t, sender, value)
    ELSE IF body.bits[1].k = "str"
    THEN IF body.bits[1].s = TopupComment
         THEN ItemTopup(it, t, sender, value)
         ELSE [it |-> it, err |-> "UnknownOperation", out |-> <<>>]
    ELSE IF body.bits[1].n = 1215991425
    THEN ItemStartAuction(it, t, sender, body.refs[1])
    ELSE IF body.bits[1].n = 924203182 THEN ItemCancel(it, t, sender)
    ELSE IF body.bits[1].n = 1607220500
    THEN ItemTransfer(it, t, sender, body.bits[3].a)
    ELSE [it |-> it, err |-> "UnknownOperation", out |-> <<>>]

\* ------------------------------------------------- vouchers and submissions
\* What the issuer is asked to sign: the voucher fields, the auction
\* parameters, the royalty (<<>> when left out) and the restrictions
\* (AddrNone when left out).
AuctionParams ==
    [beneficiaryAddress |-> Deployer, initialMinBid |-> 100, maxBid |-> <<>>,
     minBidStep |-> <<5>>, minExtendTime |-> <<1>>, duration |-> <<2>>]

BaseRequest ==
    [subwalletId |-> 0, validSince |-> 1, validTill |-> 3,
     tokenName |-> N123456,
     auction |-> DirectMintParams(Deployer, 100),
     royalty |-> <<NoRoyaltyParams(Deployer)>>,
     forceSender |-> AddrNone, rewriteSender |-> AddrNone]

\* The requests that differ from BaseRequest in one field.
Deviations ==
    {[BaseRequest EXCEPT !.subwalletId = 1],
     [BaseRequest EXCEPT !.validSince = 2],
     [BaseRequest EXCEPT !.validTill = 2],
     [BaseRequest EXCEPT !.tokenName = N777],
     [BaseRequest EXCEPT !.auction = DirectMintParams(Deployer, 101)],
     [BaseRequest EXCEPT !.auction = AuctionParams],
     [BaseRequest EXCEPT !.royalty = <<>>],
     [BaseRequest EXCEPT !.forceSender = Bidder1],
     [BaseRequest EXCEPT !.rewriteSender = Bidder2]}

Requests == {BaseRequest} \cup Deviations

\* The unsigned voucher of a request, built as mintNft and
\* prepareMintMessage build it.
UnsignedOf(req) ==
    createUnsignedDeployMessageV2(
      [subwalletId |-> req.subwalletId,
       validSince |-> req.validSince,
       validTill |-> req.validTill,
       tokenName |-> req.tokenName,
       content |-> createNumberNftContent(req.tokenName),
       auctionConfig |-> createAuctionConfig(req.auction),
       royaltyParams |-> IF req.royalty = <<>> THEN NoCell
                         ELSE createRoyaltyParams(req.royalty[1]),
       restrictions |-> IF req.forceSender = AddrNone
                           /\ req.rewriteSender = AddrNone
                        THEN NoCell
                        ELSE createRestrictions(
                               [forceSenderAddress |-> req.forceSender,
                                rewriteSenderAddress |-> req.rewriteSender])])

\* The signatures a submitter may attach to the voucher of req: the issuer's
\* over that voucher, a stranger's over it, the issuer's over a voucher that
\* differs in one field, and 64 zero bytes.
SignatureChoices(req) ==
    {[signedReq |-> req, key |-> k] : k \in {"sk_collection", "sk_stranger", "zero"}}
    \cup {[signedReq |-> r, key |-> "sk_collection"] :
            r \in IF req = BaseRequest THEN Deviations ELSE {BaseRequest}}

SignatureOf(choice) ==
    IF choice.key = "zero" THEN ZeroSignature
    ELSE signDeployMessage(UnsignedOf(choice.signedReq), choice.key)

Genuine(req, choice) ==
    choice.signedReq = req /\ choice.key = CollectionKey.secretKey

\* The body a submitter sends (sendDeployMessageV2).
MintBody(req, choice) ==
    createSignedDeployMessageV2(UnsignedOf(req), SignatureOf(choice))

\* Payments attached to a mint.
MintValues == {99, 100, 101}

\* -------------------------------------------- the collection on its own
\* A submission on its way to the collection: who sends it, what it pays,
\* the voucher it carries and the signature attached.
Submissions ==
    {[op |-> "submit", t |-> 0, sender |-> sender, value |-> value,
      req |-> req, choice |-> choice, err |-> "pending", out |-> <<>>] :
        sender \in Senders, value \in MintValues,
        req \in Requests,
        choice \in UNION {SignatureChoices(r) : r \in Requests}}

InitFactory ==
    /\ now = 0
    /\ items = [a \in ItemAddrs |-> Uninitialized]
    /\ inflight = {}
    /\ collection = DeployedCollection
    /\ backend = BackendInit
    /\ last \in {sub \in Submissions :
                   /\ sub.choice \in SignatureChoices(sub.req)
                   /\ MintBody(sub.req, sub.choice).ok}

Tick ==
    /\ now < MaxTime
    /\ now' = now + 1
    /\ UNCHANGED <<items, inflight, last, collection, backend>>

\* The submission reaches the collection, which answers it; what happens to
\* the message it forwards is left out here.
FactoryMint ==
    /\ last.op = "submit"
    /\ LET res == CollectionReceive(now, last.sender, last.value,
                                    MintBody(last.req, last.choice))
       IN  last' = [last EXCEPT !.op = "mint", !.t = now,
                                !.err = res.err, !.out = res.out]
    /\ UNCHANGED <<now, items, inflight, collection, backend>>

NextFactory == Tick \/ FactoryMint

SpecFactory == InitFactory /\ [][NextFactory]_vars

\* -------------------------------------------------------- the whole system
\* The royalty of the tests: 5/100 to the royalty receiver.
TestRoyalty ==
    [numerator |-> 5, denominator |-> 100, destination |-> RoyaltyReceiver]

\* Vouchers the issuer signs for the same name: a direct sale without
\* royalty open to any sender, and an auction with the royalty of the tests
\* that only the deployer may start.
MintRequests ==
    {BaseRequest,
     [BaseRequest EXCEPT !.auction = AuctionParams, !.forceSender = Deployer,
                         !.royalty = <<TestRoyalty>>]}

\* Who submits them, and with what signature.
Minters == {Deployer, Bidder1}

MintChoices(req) ==
    {[signedReq |-> req, key |-> k] : k \in {"sk_collection", "zero"}}

\* The price paid with a mint (mintPrice of the tests).
MintPrice == 100

\* Amounts sent to an item as bids; a start-auction message carries a fee.
BidValues == {99, 100, 104, 105}
StartAuctionFee == 5

\* The signed bodies the minters may send, and the start-auction body.
MintSubmissions ==
    {[sender |-> sender, req |-> req, choice |-> choice,
      body |-> MintBody(req, choice)] :
        sender \in Minters, req \in MintRequests,
        choice \in UNION {MintChoices(r) : r \in MintRequests}}

\* The auction an owner starts: it ends at once at a bid of 105, and it is
\* shorter than its extension time.
NewAuctionParams ==
    [beneficiaryAddress |-> Deployer, initialMinBid |-> 100, maxBid |-> <<105>>,
     minBidStep |-> <<5>>, minExtendTime |-> <<2>>, duration |-> <<1>>]

NewAuctionBody == StartAuctionBody(createAuctionConfig(NewAuctionParams))

\* The cancel body, and the transfer bodies naming each new owner.
TransferBodyTo(newOwner) ==
    TransferBody(newOwner, ZeroAddress, NoCell, 0, NoCell)

\* The last operation: what it was, the entity addressed, the amount that
\* came with it, the outcome, the payments it made, for a delivery the
\* message delivered, for a wallet's message to an item the wallet, and for
\* a transfer the new owner it names.
NoOp ==
    [op |-> "none", to |-> AddrNone, value |-> 0, err |-> "none",
     out |-> <<>>, msg |-> <<>>, caller |-> AddrNone, newOwner |-> AddrNone]

Init ==
    /\ now = 0
    /\ items = [a \in ItemAddrs |-> Uninitialized]
    /\ inflight = {}
    /\ collection = DeployedCollection
    /\ backend = BackendInit
    /\ last = NoOp

\* The items wallets write to: those of the names vouchers were issued for.
Targets == {ItemAddressByIndex(stringHash(req.tokenName)) : req \in MintRequests}

\* The wallets that bid.
Bidders == {Bidder1, Bidder2}

\* A wallet submits a signed voucher; the collection answers it and, when it
\* accepts, the initialization message is on its way to the item. (A message
\* equal to one still in flight is not sent again: it would be delivered as
\* that one is.)
SubmitMint ==
    \E sub \in MintSubmissions :
        LET res == CollectionReceive(now, sub.sender, MintPrice, sub.body)
        IN  /\ sub.choice \in MintChoices(sub.req)
            /\ sub.body.ok
            /\ res.err = "ok" =>
                  /\ Cardinality(inflight) < MaxInflight
                  /\ res.out[1] \notin inflight
            /\ inflight' = IF res.err = "ok"
                           THEN inflight \cup {res.out[1]}
                           ELSE inflight
            /\ last' = [op |-> "mint", to |-> CollectionAddress,
                        value |-> MintPrice, err |-> res.err, out |-> <<>>,
                        msg |-> <<>>, caller |-> AddrNone,
                        newOwner |-> AddrNone]
            /\ UNCHANGED <<now, items, collection, backend>>

\* An initialization message reaches its item, in any order.
DeliverInit ==
    \E m \in inflight :
      LET res == ItemInit(items[m.to], m, now)
      IN  /\ items' = [items EXCEPT ![m.to] = res.it]
          /\ inflight' = inflight \ {m}
          /\ last' = [op |-> "init", to |-> m.to, value |-> m.bid,
                      err |-> res.err, out |-> res.out, msg |-> <<m>>,
                      caller |-> AddrNone, newOwner |-> AddrNone]
          /\ UNCHANGED <<now, collection, backend>>

\* A wallet sends a payment with an empty body to an item (sendBid).
Bid ==
    \E a \in Targets, sender \in Bidders, value \in BidValues :
      LET res == ItemReceive(items[a], now, sender, value, BidBody)
      IN  /\ items' = [items EXCEPT ![a] = res.it]
          /\ last' = [op |-> "bid", to |-> a, value |-> value,
                      err |-> res.err, out |-> res.out, msg |-> <<>>,
                      caller |-> sender, newOwner |-> AddrNone]
          /\ UNCHANGED <<now, inflight, collection, backend>>

\* A wallet asks an item to start a new auction (sendStartAuction).
StartAuction ==
    \E a \in Targets, sender \in Senders :
      LET res == ItemReceive(items[a], now, sender, StartAuctionFee,
                             NewAuctionBody)
      IN  /\ NewAuctionBody.ok
          /\ items' = [items EXCEPT ![a] = res.it]
          /\ last' = [op |-> "start_auction", to |-> a,
                      value |-> StartAuctionFee, err |-> res.err,
                      out |-> res.out, msg |-> <<>>,
                      caller |-> sender, newOwner |-> AddrNone]
          /\ UNCHANGED <<now, inflight, collection, backend>>

\* A wallet asks an item to cancel its auction (sendCancelAuction).
Cancel ==
    \E a \in Targets, sender \in Senders :
      LET res == ItemReceive(items[a], now, sender, StartAuctionFee,
                             CancelBody)
      IN  /\ CancelBody.ok
          /\ items' = [items EXCEPT ![a] = res.it]
          /\ last' = [op |-> "cancel", to |-> a,
                      value |-> StartAuctionFee, err |-> res.err,
                      out |-> res.out, msg |-> <<>>,
                      caller |-> sender, newOwner |-> AddrNone]
          /\ UNCHANGED <<now, inflight, collection, backend>>

\* A wallet asks an item to change its owner (sendTransfer).
Transfer ==
    \E a \in Targets, sender \in Senders, newOwner \in Bidders :
      LET body == TransferBodyTo(newOwner)
          res == ItemReceive(items[a], now, sender, MintPrice, body)
      IN  /\ body.ok
          /\ items' = [items EXCEPT ![a] = res.it]
          /\ last' = [op |-> "transfer", to |-> a,
                      value |-> MintPrice, err |-> res.err,
                      out |-> res.out, msg |-> <<>>,
                      caller |-> sender, newOwner |-> newOwner]
          /\ UNCHANGED <<now, inflight, collection, backend>>

Next == Tick \/ SubmitMint \/ DeliverInit \/ Bid \/ StartAuction

Spec == Init /\ [][Next]_vars

\* ------------------------------------------------- the item and its wallets
\* The initialization messages the collection has forwarded by time t: those
\* of the submissions it accepted at some time up to t.
Forwarded ==
    [t \in 0..(MaxTime + 1) |->
       UNION {LET res == CollectionReceive(t0, sub.sender, MintPrice, sub.body)
              IN  IF sub.choice \in MintChoices(sub.req) /\ sub.body.ok
                     /\ res.err = "ok"
                  THEN {res.out[1]} ELSE {} :
              t0 \in 0..t, sub \in MintSubmissions}]

\* A forwarded initialization message reaches its item, however late and
\* however often.
Initialize ==
    \E m \in Forwarded[now] :
      LET res == ItemInit(items[m.to], m, now)
      IN  /\ items' = [items EXCEPT ![m.to] = res.it]
          /\ last' = [op |-> "init", to |-> m.to, value |-> m.bid,
                      err |-> res.err, out |-> res.out, msg |-> <<m>>,
                      caller |-> AddrNone, newOwner |-> AddrNone]
          /\ UNCHANGED <<now, inflight, collection, backend>>

\* ------------------------------------------------------------ the backend
\* CONTRACT_CONFIG, with the validity window in ticks.
BackendConfig ==
    [subwalletId |-> 0,
     privateKey |-> CollectionKey.secretKey,
     beneficiaryAddress |-> Deployer,
     mintPrice |-> MintPrice,
     signatureValidityWindow |-> 2]

\* AVAILABLE_NUMBERS, in the order the set is iterated.
AvailableNumbers == << <<"1">>, <<"2">> >>

\* No number: what getAvailableNumber returns when the pool is used up.
NoNumber == <<>>

\* getAvailableNumber(): the first number of the pool that is not minted.
getAvailableNumber(minted) ==
    LET free == {i \in 1..Len(AvailableNumbers) :
                   AvailableNumbers[i] \notin minted}
    IN  IF free = {} THEN NoNumber
        ELSE AvailableNumbers[CHOOSE i \in free : \A j \in free : i <= j]

\* markNumberAsMinted(number)
markNumberAsMinted(minted, number) == minted \cup {number}

\* prepareMintMessage(userAddress) at time t. Its step 9, the call of
\* markNumberAsMinted, is commented out: minted stays as it is.
prepareMintMessage(minted, userAddress, t) ==
    LET number == getAvailableNumber(minted)
        unsignedMessage ==
          createUnsignedDeployMessageV2(
            [subwalletId |-> BackendConfig.subwalletId,
             validSince |-> t - 1,
             validTill |-> t + BackendConfig.signatureValidityWindow,
             tokenName |-> number,
             content |-> createNumberNftContent(number),
             auctionConfig |->
               createDirectMintAuctionConfig(BackendConfig.beneficiaryAddress,
                                             BackendConfig.mintPrice),
             royaltyParams |->
               createNoRoyaltyParams(BackendConfig.beneficiaryAddress),
             restrictions |->
               createRestrictions([forceSenderAddress |-> userAddress,
                                   rewriteSenderAddress |-> AddrNone])])
        signature == signDeployMessage(unsignedMessage,
                                       BackendConfig.privateKey)
    IN  IF number = NoNumber
        THEN [err |-> "NoAvailableNumbers", minted |-> minted, out |-> <<>>]
        ELSE [err |-> "ok",
              minted |-> minted,
              out |-> <<[tokenName |-> number,
                         signedMessage |->
                           createSignedDeployMessageV2(unsignedMessage,
                                                       signature),
                         mintPrice |-> BackendConfig.mintPrice,
                         validTill |->
                           t + BackendConfig.signatureValidityWindow]>>]

\* confirmMint(tokenName, txHash)
confirmMint(minted, tokenName) == markNumberAsMinted(minted, tokenName)

\* The backend starts one minute after the zero of its clock.
InitBackend ==
    /\ now = 1
    /\ items = [a \in ItemAddrs |-> Uninitialized]
    /\ inflight = {}
    /\ collection = DeployedCollection
    /\ backend = BackendInit
    /\ last = NoOp

\* POST /api/mint/prepare
PrepareMint ==
    \E user \in Bidders :
      LET res == prepareMintMessage(backend.minted, user, now)
          handed == {[issuedAt |-> now, user |-> user, voucher |-> res.out[i]] :
                       i \in 1..Len(res.out)}
      IN  /\ Cardinality(backend.issued \cup handed) <= MaxIssued
          /\ backend' = [minted |-> res.minted,
                         issued |-> backend.issued \cup handed]
          /\ last' = [op |-> "prepare", to |-> AddrNone, value |-> 0,
                      err |-> res.err, out |-> res.out, msg |-> <<>>,
                      caller |-> user, newOwner |-> AddrNone]
          /\ UNCHANGED <<now, items, inflight, collection>>

\* POST /api/mint/confirm, for any number of the pool.
ConfirmMint ==
    \E i \in 1..Len(AvailableNumbers) :
      /\ backend' = [backend EXCEPT
                       !.minted = confirmMint(@, AvailableNumbers[i])]
      /\ last' = [op |-> "confirm", to |-> AddrNone, value |-> 0,
                  err |-> "ok", out |-> <<>>, msg |-> <<>>,
                  caller |-> AddrNone, newOwner |-> AddrNone]
      /\ UNCHANGED <<now, items, inflight, collection>>

NextBackend == Tick \/ PrepareMint \/ ConfirmMint

SpecBackend == InitBackend /\ [][NextBackend]_vars

\* ------------------------------------------------------ the item's queries
\* The least amount the next bid must reach:
\* max(initialMinBid, previousBid * (100 + minBidStepPercent) / 100), rounded
\* up to a whole amount.
MinNextBid(it) ==
    LET cfg == ParseAuctionConfig(it.auctionConfig)
        over == (it.bid * (100 + cfg.minBidStep) + 99) \div 100
    IN  IF over > cfg.initialMinBid THEN over ELSE cfg.initialMinBid

\* The answer of the item to a get method: the values it puts on the stack,
\* in order. Nothing is answered before initialization, and the auction
\* state only while an auction is open; configuration and royalty are those
\* the item was last given.
ItemGet(it, method) ==
    IF ~it.init THEN [err |-> "NotInitialized", stack |-> <<>>]
    ELSE IF method = "get_telemint_auction_state"
    THEN IF ~it.open THEN [err |-> "NoAuction", stack |-> <<>>]
         ELSE [err |-> "ok",
               stack |-> <<it.bidder, it.bid, it.bidTs, MinNextBid(it),
                           it.endTime>>]
    ELSE IF method = "get_telemint_auction_config"
    THEN LET cfg == ParseAuctionConfig(it.auctionConfig)
         IN  [err |-> "ok",
              stack |-> <<cfg.beneficiary, cfg.initialMinBid, cfg.maxBid,
                          cfg.minBidStep, cfg.minExtendTime, cfg.duration>>]
    ELSE IF method = "royalty_params"
    THEN LET roy == ParseRoyalty(it.royaltyParams)
         IN  [err |-> "ok",
              stack |-> <<roy.numerator, roy.denominator, roy.destination>>]
    ELSE [err |-> "UnknownMethod", stack |-> <<>>]

\* A variant that reads the end time before the minimum bid.
getTelemintAuctionState_swapped(it) ==
    LET result == ItemGet(it, "get_telemint_auction_state")
    IN  IF result.err # "ok" THEN [err |-> result.err]
        ELSE [err |-> "ok",
              bidderAddress |-> result.stack[1],
              bid |-> result.stack[2],
              bidTs |-> result.stack[3],
              minBid |-> result.stack[5],
              endTime |-> result.stack[4]]

\* NftItem.getTelemintAuctionState
getTelemintAuctionState(it) ==
    LET result == ItemGet(it, "get_telemint_auction_state")
    IN  IF result.err # "ok" THEN [err |-> result.err]
        ELSE [err |-> "ok",
              bidderAddress |-> result.stack[1],
              bid |-> result.stack[2],
              bidTs |-> result.stack[3],
              minBid |-> result.stack[4],
              endTime |-> result.stack[5]]

\* A variant that calls the auction-state method instead.
getTelemintAuctionConfig_state(it) ==
    LET result == ItemGet(it, "get_telemint_auction_state")
    IN  IF result.err # "ok" THEN [err |-> result.err]
        ELSE [err |-> "ok",
              beneficiaryAddress |-> result.stack[1],
              initialMinBid |-> result.stack[2],
              maxBid |-> result.stack[3],
              minBidStep |-> result.stack[4],
              minExtendTime |-> result.stack[5],
              duration |-> 0]

\* NftItem.getTelemintAuctionConfig
getTelemintAuctionConfig(it) ==
    LET result == ItemGet(it, "get_telemint_auction_config")
    IN  IF result.err # "ok" THEN [err |-> result.err]
        ELSE [err |-> "ok",
              beneficiaryAddress |-> result.stack[1],
              initialMinBid |-> result.stack[2],
              maxBid |-> result.stack[3],
              minBidStep |-> result.stack[4],
              minExtendTime |-> result.stack[5],
              duration |-> result.stack[6]]

\* NftItem.getRoyaltyParams
getRoyaltyParams(it) ==
    LET result == ItemGet(it, "royalty_params")
    IN  IF result.err # "ok" THEN [err |-> result.err]
        ELSE [err |-> "ok",
              numerator |-> result.stack[1],
              denominator |-> result.stack[2],
              destination |-> result.stack[3]]

\* ------------------------------------------------- auctions of every step
\* The minBidStep arguments tried: left out, 0, 1, 5, 255 and 256.
BidSteps == {<<>>, <<0>>, <<1>>, <<5>>, <<255>>, <<256>>}

\* The auction of the tests' vouchers with the bid step given.
StepParams(step) == [AuctionParams EXCEPT !.minBidStep = step]

\* The auction of the tests' vouchers with a least first bid of nothing.
FreeParams == [AuctionParams EXCEPT !.initialMinBid = 0]

\* Vouchers for one name: the direct sale, the auction with no least first
\* bid, and the auctions that differ in the bid step only; those whose
\* configuration createAuctionConfig cannot encode are left out.
StepRequests ==
    {BaseRequest, [BaseRequest EXCEPT !.auction = FreeParams]}
    \cup {[BaseRequest EXCEPT !.auction = StepParams(step)] :
            step \in {st \in BidSteps : createAuctionConfig(StepParams(st)).ok}}

\* The initialization messages the collection has forwarded by time t for
\* these vouchers, submitted by the deployer with the issuer's signature.
StepForwarded ==
    [t \in 0..(MaxTime + 1) |->
       UNION {LET choice == [signedReq |-> req,
                             key |-> CollectionKey.secretKey]
                  res == CollectionReceive(t0, Deployer, MintPrice,
                                           MintBody(req, choice))
              IN  IF res.err = "ok" THEN {res.out[1]} ELSE {} :
              t0 \in 0..t, req \in StepRequests}]

\* One of these initialization messages reaches its item.
InitializeStep ==
    \E m \in StepForwarded[now] :
      LET res == ItemInit(items[m.to], m, now)
      IN  /\ items' = [items EXCEPT ![m.to] = res.it]
          /\ last' = [op |-> "init", to |-> m.to, value |-> m.bid,
                      err |-> res.err, out |-> res.out, msg |-> <<m>>,
                      caller |-> AddrNone, newOwner |-> AddrNone]
          /\ UNCHANGED <<now, inflight, collection, backend>>

NextStep == Tick \/ InitializeStep \/ Bid

SpecStep == Init /\ [][NextStep]_vars

\* ------------------------------------------------- retry with backoff
\* What a call of fn ends with: a value, or one of these errors. A message
\* stands for the phrases it contains.
FnOutcomes ==
    {[ok |-> TRUE, value |-> "result"]}
    \cup {[ok |-> FALSE, error |-> e] :
            e \in {[status |-> 429, message |-> {}],
                   [status |-> 0, message |-> {"Rate limit"}],
                   [status |-> 0, message |-> {"Too Many Requests"}],
                   [status |-> 500, message |-> {"Internal error"}]}}

\* isRateLimitError(error) of the production script and of the E2E suite;
\* only the script knows the phrase 'Too Many Requests'.
isRateLimitError(variant, error) ==
    \/ error.status = 429
    \/ error.message \cap {"429", "rate limit", "Rate limit",
                            "too many requests"} # {}
    \/ variant = "script" /\ "Too Many Requests" \in error.message

\* A variant of the test in the catch block that gives up on the last attempt
\* only, whatever the error.
GivesUp_lastOnly(variant, error, attempt, maxRetries) == attempt = maxRetries

\* The test in the catch block: throw at once unless the error is a rate
\* limit and attempts are left.
GivesUp(variant, error, attempt, maxRetries) ==
    ~isRateLimitError(variant, error) \/ attempt = maxRetries

\* retryWithBackoff is entered: attempt 0, the initial delay, nothing called.
InitRetry ==
    /\ now = 0
    /\ items = [a \in ItemAddrs |-> Uninitialized]
    /\ inflight = {}
    /\ collection = DeployedCollection
    /\ backend = BackendInit
    /\ last \in {[op |-> "retry", variant |-> v, maxRetries |-> m,
                   attempt |-> 0,
                   delay |-> IF v = "script" THEN 1000 ELSE 2000,
                   pc |-> "loop", outcomes |-> <<>>, slept |-> 0,
                   end |-> <<>>] :
                    v \in {"script", "suite"}, m \in (0 - 1)..MaxRetries}

\* One pass of the loop body up to the sleep: fn is called and returns or
\* throws; the catch block rethrows or goes on to sleep.
RetryCall ==
    /\ last.op = "retry" /\ last.pc = "loop"
    /\ last.attempt <= last.maxRetries
    /\ \E o \in FnOutcomes :
         LET called == [last EXCEPT !.outcomes = Append(@, o)]
         IN  last' = IF o.ok
                     THEN [called EXCEPT !.pc = "returned", !.end = <<o>>]
                     ELSE IF GivesUp(last.variant, o.error, last.attempt,
                                     last.maxRetries)
                     THEN [called EXCEPT !.pc = "thrown", !.end = <<o>>]
                     ELSE [called EXCEPT !.pc = "sleep"]
    /\ UNCHANGED <<now, items, inflight, collection, backend>>

\* The sleep ends: the delay doubles, capped at maxDelay in the script, and
\* the next attempt begins.
RetrySleep ==
    /\ last.op = "retry" /\ last.pc = "sleep"
    /\ last' = [last EXCEPT !.pc = "loop", !.slept = @ + 1,
                            !.attempt = @ + 1,
                            !.delay = IF last.variant = "script" /\ @ * 2 > 10000
                                      THEN 10000 ELSE @ * 2]
    /\ UNCHANGED <<now, items, inflight, collection, backend>>

\* The loop ends without a call left to make: the statement after it throws.
RetryExhausted ==
    /\ last.op = "retry" /\ last.pc = "loop"
    /\ last.attempt > last.maxRetries
    /\ last' = [last EXCEPT !.pc = "thrown"]
    /\ UNCHANGED <<now, items, inflight, collection, backend>>

NextRetry == RetryCall \/ RetrySleep \/ RetryExhausted

\* fn settles and timers fire: a step that can be taken is taken.
SpecRetry == InitRetry /\ [][NextRetry]_vars /\ WF_vars(NextRetry)

\* ------------------------------------------- waiting for the confirmation
\* maxAttempts of the minting script.
MaxAttempts == 60

\* The mint transfer has been sent with the wallet's seqno 0: the script
\* enters its loop with currentSeqno = seqno, the frontend example is about
\* to read the seqno for the first time.
InitWait ==
    /\ now = 0
    /\ items = [a \in ItemAddrs |-> Uninitialized]
    /\ inflight = {}
    /\ collection = DeployedCollection
    /\ backend = BackendInit
    /\ last \in {[op |-> "wait", variant |-> "script", seqno |-> 0,
                   wallet |-> 0, currentSeqno |-> 0, attempts |-> 0,
                   pc |-> "loop"],
                  [op |-> "wait", variant |-> "frontend", seqno |-> 0,
                   wallet |-> 0, currentSeqno |-> 0, attempts |-> 0,
                   pc |-> "sent"]}

\* The wallet processes the transfer: its seqno advances. Nothing makes it.
WalletAdvance ==
    /\ last.op = "wait" /\ last.wallet = last.seqno
    /\ last' = [last EXCEPT !.wallet = @ + 1]
    /\ UNCHANGED <<now, items, inflight, collection, backend>>

\* One step of the wait: the loop test and, if it holds, the sleep and the
\* call of wallet.getSeqno(), which answers or, if throws, fails. The script
\* counts attempts and catches the failure; the frontend example does
\* neither.
Poll(throws) ==
    /\ last.op = "wait"
    /\ last.pc \in {"sent", "loop"}
    /\ last' =
         IF last.variant = "script"
         THEN IF last.currentSeqno = last.seqno
                 /\ last.attempts < MaxAttempts
              THEN IF throws THEN [last EXCEPT !.attempts = @ + 1]
                   ELSE IF last.wallet > last.seqno
                   THEN [last EXCEPT !.currentSeqno = last.wallet,
                                     !.pc = "done"]
                   ELSE [last EXCEPT !.currentSeqno = last.wallet,
                                     !.attempts = @ + 1]
              ELSE [last EXCEPT !.pc = "done"]
         ELSE IF last.pc = "loop" /\ last.currentSeqno # last.seqno
         THEN [last EXCEPT !.pc = "done"]
         ELSE IF throws THEN [last EXCEPT !.pc = "failed"]
         ELSE [last EXCEPT !.currentSeqno = last.wallet, !.pc = "loop"]
    /\ UNCHANGED <<now, items, inflight, collection, backend>>

NextWait == WalletAdvance \/ \E throws \in BOOLEAN : Poll(throws)

\* The timer fires and the query answers, so the wait goes on stepping;
\* nothing obliges the wallet to advance or the query to fail.
SpecWait == InitWait /\ [][NextWait]_vars /\ WF_vars(Poll(FALSE))

\* ------------------------------------------------- royalty parameters
\* Numerators and denominators tried: around both ends of the 16-bit range.
RoyaltyValues == {0 - 1, 0, 1, 5, 100, 65535, 65536, 70000}

RoyaltyInputs ==
    [numerator : RoyaltyValues, denominator : RoyaltyValues,
     destination : Senders]

InitRoyalty ==
    /\ now = 0
    /\ items = [a \in ItemAddrs |-> Uninitialized]
    /\ inflight = {}
    /\ collection = DeployedCollection
    /\ backend = BackendInit
    /\ last \in {[op |-> "params", params |-> q] : q \in RoyaltyInputs}

\* createRoyaltyParams is called on the parameters, and the cell it returns,
\* if it returns one, is read back field by field.
EncodeRoyalty ==
    /\ last.op = "params"
    /\ LET cell == createRoyaltyParams(last.params)
       IN  last' = [op |-> "royalty", params |-> last.params,
                    thrown |-> ~cell.ok,
                    decoded |-> IF cell.ok THEN <<ParseRoyalty(cell)>>
                                ELSE <<>>]
    /\ UNCHANGED <<now, items, inflight, collection, backend>>

SpecRoyalty == InitRoyalty /\ [][EncodeRoyalty]_vars

\* ------------------------------------------------- names and contents
\* The names tried have at most this many characters, the long ones apart.
MaxNameLen == 3

\* The number of bytes storeStringTail writes for a string, its UTF-8
\* encoding: one byte for a digit, two for "é", three for "€".
RECURSIVE Utf8Length(_)
Utf8Length(s) ==
    IF s = <<>> THEN 0
    ELSE (IF Head(s) = "é" THEN 2 ELSE IF Head(s) = "€" THEN 3 ELSE 1)
         + Utf8Length(Tail(s))

\* createNftContent(uri) of the second content module: tag 1 and the URI.
createNftContentUri(uri) ==
    StoreStringTail(StoreUint(BeginCell, 1, 8), uri)

\* A variant that answers an unknown tag with an empty value.
parseNftContent_lenient(module, cell) ==
    IF cell.bits = <<>> \/ cell.bits[1].k # "uint"
    THEN [err |-> "MalformedEncoding"]
    ELSE IF module = "helpers"
    THEN IF cell.bits[1].n = 0
         THEN IF cell.bits[2].k = "json"
              THEN [err |-> "ok", value |-> cell.bits[2].j]
              ELSE [err |-> "InvalidJson"]
         ELSE [err |-> "ok", value |-> [uri |-> <<>>]]
    ELSE IF cell.bits[1].n = 1
         THEN [err |-> "ok", value |-> [uri |-> <<cell.bits[2].s>>]]
         ELSE [err |-> "ok", value |-> [uri |-> <<>>]]

\* parseNftContent(cell) of the two content modules. "helpers": tag 0 is the
\* JSON text, which JSON.parse reads back or fails on; every other tag is
\* unsupported. "part_002": tag 1 is the URI, returned as {uri}; tag 0 gives
\* the empty object; every other tag is unsupported.
parseNftContent(module, cell) ==
    IF cell.bits = <<>> \/ cell.bits[1].k # "uint"
    THEN [err |-> "MalformedEncoding"]
    ELSE IF module = "helpers"
    THEN IF cell.bits[1].n = 0
         THEN IF cell.bits[2].k = "json"
              THEN [err |-> "ok", value |-> cell.bits[2].j]
              ELSE [err |-> "InvalidJson"]
         ELSE [err |-> "UnsupportedTag", tag |-> cell.bits[1].n]
    ELSE IF cell.bits[1].n = 1
         THEN [err |-> "ok", value |-> [uri |-> <<cell.bits[2].s>>]]
         ELSE IF cell.bits[1].n = 0
         THEN [err |-> "ok", value |-> [uri |-> <<>>]]
         ELSE [err |-> "UnsupportedTag", tag |-> cell.bits[1].n]

\* A name about to be signed into a voucher, or a content cell about to be
\* parsed by one of the two modules: a cell either module's createNftContent
\* made, or a cell with another payload or another tag.
InitCodec ==
    /\ now = 0
    /\ items = [a \in ItemAddrs |-> Uninitialized]
    /\ inflight = {}
    /\ collection = DeployedCollection
    /\ backend = BackendInit
    /\ last \in
         {[op |-> "name", tokenName |-> n] :
            n \in UNION {[1..k -> {"7", "é", "€"}] : k \in 0..MaxNameLen}
                  \cup {[i \in 1..k |-> c] :
                          k \in {128, 255, 256}, c \in {"7", "é"}}}
         \cup
         {[op |-> "content", module |-> m, by |-> c.by, cell |-> c.cell,
           encoded |-> c.encoded] :
            m \in {"helpers", "part_002"},
            c \in {[by |-> "helpers", cell |-> createNftContent(q),
                    encoded |-> <<q>>] :
                     q \in [name : {<<>>, <<"A">>},
                            description : {<<>>, <<"B">>},
                            image : {<<>>, <<"C">>},
                            number : {N777, N123456}]}
                  \cup
                  {[by |-> "part_002", cell |-> createNftContentUri(u),
                    encoded |-> <<u>>] :
                     u \in {<<>>, <<"u">>, <<"{", "}">>}}
                  \cup
                  {[by |-> "other",
                    cell |-> StoreStringTail(StoreUint(BeginCell, tag, 8),
                                             <<"u">>),
                    encoded |-> <<>>] : tag \in {0, 2, 255}}
                  \cup
                  {[by |-> "other",
                    cell |-> StoreJson(StoreUint(BeginCell, tag, 8),
                                       [name |-> <<"A">>]),
                    encoded |-> <<>>] : tag \in {2, 255}}}

\* createUnsignedDeployMessageV2 is called for the name with the other
\* fields of the tests' voucher; of the cell it returns, if it returns one,
\* the length field and the name are read.
EncodeName ==
    /\ last.op = "name"
    /\ LET cell == UnsignedOf([BaseRequest EXCEPT
                                 !.tokenName = last.tokenName])
       IN  last' = [op |-> "voucher", tokenName |-> last.tokenName,
                    thrown |-> ~cell.ok,
                    nameLen |-> IF cell.ok THEN <<cell.bits[4].n>> ELSE <<>>,
                    name |-> IF cell.ok THEN <<cell.bits[5].s>> ELSE <<>>]
    /\ UNCHANGED <<now, items, inflight, collection, backend>>

\* parseNftContent of the module is called on the cell.
ParseContent ==
    /\ last.op = "content"
    /\ last' = [op |-> "parsed", module |-> last.module, by |-> last.by,
                cell |-> last.cell, encoded |-> last.encoded,
                result |-> parseNftContent(last.module, last.cell)]
    /\ UNCHANGED <<now, items, inflight, collection, backend>>

SpecCodec == InitCodec /\ [][EncodeName \/ ParseContent]_vars

\* ------------------------------------------------- the collection's state
\* The balance of the collection is topped up to at most this many TON.
MaxTopups == 2

\* The values of the top-ups the tests send the collection: 0.5 and 1 TON.
TopupValues == {500, 1000}

\* A top-up of the collection: the value is added to its balance.
CollectionTopupReceive(c, value) == [c EXCEPT !.balance = @ + value]

\* A wallet sends the collection the message NftCollection.sendTopup builds.
CollectionTopup ==
    \E sender \in Senders, value \in TopupValues :
      /\ TopupBody.ok
      /\ collection.balance + value <= MaxTopups * 1000
      /\ collection' = CollectionTopupReceive(collection, value)
      /\ last' = [op |-> "collection_topup", to |-> CollectionAddress,
                  value |-> value, err |-> "ok", out |-> <<>>,
                  msg |-> <<>>, caller |-> sender, newOwner |-> AddrNone]
      /\ UNCHANGED <<now, items, inflight, backend>>

\* The collection under top-ups and mint submissions; the messages it
\* forwards stay in flight.
NextCollection == Tick \/ SubmitMint \/ CollectionTopup

SpecCollection == Init /\ [][NextCollection]_vars

\* A wallet sends an item a copy of an initialization message the
\* collection has forwarded: the same content, the wallet as its sender.
ForgedInit ==
    \E m \in Forwarded[now], sender \in Senders :
      LET forged == [m EXCEPT !.from = sender]
          res == ItemInit(items[m.to], forged, now)
      IN  /\ items' = [items EXCEPT ![m.to] = res.it]
          /\ last' = [op |-> "forged_init", to |-> m.to, value |-> m.bid,
                      err |-> res.err, out |-> res.out, msg |-> <<forged>>,
                      caller |-> sender, newOwner |-> AddrNone]
          /\ UNCHANGED <<now, inflight, collection, backend>>

\* A wallet sends an item a top-up of 0.1 TON.
Topup ==
    \E a \in Targets, sender \in Senders :
      LET res == ItemReceive(items[a], now, sender, MintPrice, TopupBody)
      IN  /\ TopupBody.ok
          /\ items' = [items EXCEPT ![a] = res.it]
          /\ last' = [op |-> "topup", to |-> a, value |-> MintPrice,
                      err |-> res.err, out |-> res.out, msg |-> <<>>,
                      caller |-> sender, newOwner |-> AddrNone]
          /\ UNCHANGED <<now, inflight, collection, backend>>

\* A wallet sends an item a message with an operation tag it does not know.
Unknown ==
    \E a \in Targets, sender \in Senders, op \in UnknownOps :
      LET res == ItemReceive(items[a], now, sender, MintPrice,
                             UnknownBody(op))
      IN  /\ UnknownBody(op).ok
          /\ items' = [items EXCEPT ![a] = res.it]
          /\ last' = [op |-> "unknown", to |-> a, value |-> MintPrice,
                      err |-> res.err, out |-> res.out, msg |-> <<>>,
                      caller |-> sender, newOwner |-> AddrNone]
          /\ UNCHANGED <<now, inflight, collection, backend>>

\* The item under every message a wallet can send it.
NextItem ==
    \/ Tick \/ Initialize \/ ForgedInit
    \/ Bid \/ StartAuction \/ Cancel \/ Transfer
    \/ Topup \/ Unknown

SpecItem == Init /\ [][NextItem]_vars

\* ------------------------------------------------ properties: the collection
\* What a request asks for, read off the request itself.
InWindow(req, t) == req.validSince <= t /\ t <= req.validTill

SenderAllowed(req, sender) ==
    req.forceSender = AddrNone \/ req.forceSender = sender

\* C1: the collection forwards an initialization message only when the
\* signature is the issuer's over exactly the submitted voucher, the issuer's
\* signature over the submitted voucher passes the signature check, and any
\* other signature (zero bytes, a stranger's, the issuer's over a voucher that
\* differs in a field) is rejected with InvalidSignature and nothing is sent.
C1_SignatureGate ==
    last.op = "mint" =>
      /\ last.out # <<>> => Genuine(last.req, last.choice)
      /\ Genuine(last.req, last.choice) => last.err # "InvalidSignature"
      /\ ~Genuine(last.req, last.choice) =>
            last.err = "InvalidSignature" /\ last.out = <<>>

C1_Witness ==
    /\ last.op = "mint"
    /\ last.choice.key = CollectionKey.secretKey
    /\ last.choice.signedReq # last.req
    /\ InWindow(last.req, last.t)
    /\ last.err = "InvalidSignature"

C4_ForceSender ==
    (/\ last.op = "mint"
     /\ Genuine(last.req, last.choice)
     /\ InWindow(last.req, last.t)
     /\ last.req.subwalletId = CollectionConfig.subwalletId
     /\ last.req.forceSender # AddrNone) =>
      /\ last.sender # last.req.forceSender =>
            last.err = "SenderNotAllowed" /\ last.out = <<>>
      /\ last.sender = last.req.forceSender =>
            last.err \in {"ok", "InsufficientFunds"}

C4_Witness ==
    /\ last.op = "mint"
    /\ last.req.forceSender = Bidder1
    /\ last.sender = Deployer
    /\ last.value >= last.req.auction.initialMinBid
    /\ last.err = "SenderNotAllowed"
    /\ last.out = <<>>

C6_WrongSubPool ==
    (/\ last.op = "mint"
     /\ Genuine(last.req, last.choice)
     /\ InWindow(last.req, last.t)
     /\ last.req.subwalletId # CollectionConfig.subwalletId) =>
      last.err = "WrongSubPool" /\ last.out = <<>>

C6_Witness ==
    /\ last.op = "mint"
    /\ last.req.subwalletId # CollectionConfig.subwalletId
    /\ last.value >= last.req.auction.initialMinBid
    /\ last.err = "WrongSubPool"
    /\ last.out = <<>>

\* C7: the address an initialization message goes to is the address derived
\* from (sha256 of the name, the collection's address, the item code); every
\* voucher with the same name, whatever its other fields, resolves to that
\* same address; and it is never the collection's own address.
C7_AddressOfName ==
    last.op = "mint" /\ last.out # <<>> =>
      /\ last.out[1].to =
           NftItemAddress([itemIndex |-> stringHash(last.req.tokenName),
                           collectionAddress |-> CollectionAddress],
                          ItemCode, 0)
      /\ \A r \in Requests :
           r.tokenName = last.req.tokenName =>
             ItemAddressByIndex(stringHash(ParseVoucher(UnsignedOf(r)).name))
               = last.out[1].to
      /\ last.out[1].to # CollectionAddress

C7_Witness ==
    /\ last.op = "mint"
    /\ last.out # <<>>
    /\ last.req.tokenName = N777
    /\ last.out[1].to = ItemAddressByIndex(stringHash(N777))
    /\ last.out[1].to # ItemAddressByIndex(stringHash(N123456))

\* ------------------------------------------------------ properties: the item
\* The auction parameters a configuration cell was built from.
KnownAuctionParams ==
    {r.auction : r \in Requests} \cup {AuctionParams, NewAuctionParams}

AuctionParamsOf(config) ==
    CHOOSE p \in KnownAuctionParams : createAuctionConfig(p) = config

\* C2: when an initialization message reaches an item, no other item
\* changes; if the item is uninitialized the message sets its index, content,
\* auction configuration and royalty; if it is initialized already, by the
\* same voucher or by another voucher for the same name, nothing of its state
\* changes.
C2_FirstInitWins ==
    [][\A m \in inflight :
         inflight' = inflight \ {m} =>
           /\ \A a \in ItemAddrs \ {m.to} : items'[a] = items[a]
           /\ items[m.to].init =>
                items'[m.to] = items[m.to] /\ last'.err # "ok"
           /\ ~items[m.to].init =>
                /\ items'[m.to].init
                /\ items'[m.to].index = stringHash(m.tokenName)
                /\ items'[m.to].content = m.content
                /\ items'[m.to].auctionConfig = m.auctionConfig
                /\ items'[m.to].royaltyParams = m.royaltyParams]_vars

\* A late initialization message carrying the auction voucher reached the
\* item that the direct-sale voucher for the same name had initialized.
C2_Witness ==
    /\ last.op = "init"
    /\ last.err = "AlreadyInitialized"
    /\ last.msg[1].auctionConfig = createAuctionConfig(AuctionParams)
    /\ items[last.to].auctionConfig
         = createDirectMintAuctionConfig(Deployer, MintPrice)
    /\ IsOwned(items[last.to])

\* C8: the first initialization of an item from a voucher whose auction
\* configuration is createDirectMintAuctionConfig(price X), paid exactly X,
\* leaves the item Owned, its owner the submitter, and its token-name query
\* answering the voucher's name.
C8_DirectSaleMint ==
    (/\ last.op = "init"
     /\ last.err = "ok"
     /\ last.value = MintPrice
     /\ last.msg[1].auctionConfig
          = createDirectMintAuctionConfig(Deployer, MintPrice)) =>
      /\ IsOwned(items[last.to])
      /\ items[last.to].owner = last.msg[1].bidder
      /\ items[last.to].owner \in Minters
      /\ \A n \in Names :
           last.to = ItemAddressByIndex(stringHash(n)) =>
             getTelemintTokenName(items[last.to]) = n

C8_Witness ==
    /\ last.op = "init"
    /\ last.err = "ok"
    /\ last.value = MintPrice
    /\ IsOwned(items[last.to])
    /\ items[last.to].owner = Bidder1
    /\ getTelemintTokenName(items[last.to]) = N123456

\* C9 as stated: once an item has been sold by direct sale, no later payment
\* from any wallet is ever accepted as a bid or changes the owner.
C9_NoBidEverAfter ==
    [][\A a \in ItemAddrs :
         (/\ items[a].directSold
          /\ now' = now
          /\ last'.op = "bid"
          /\ last'.to = a) =>
           /\ last'.err # "ok"
           /\ items'[a].bid = items[a].bid
           /\ items'[a].owner = items[a].owner]_vars

\* C9: after a direct sale, for as long as the item is Owned (bidding opens
\* again only when the current owner starts a new auction), a payment from
\* any wallet is refused: it is not recorded as a bid and the item, its owner
\* included, stays as it is.
C9_NoBidWhileOwned ==
    [][\A a \in ItemAddrs :
         (/\ items[a].directSold
          /\ IsOwned(items[a])
          /\ now' = now
          /\ last'.op = "bid"
          /\ last'.to = a) =>
           /\ items'[a] = items[a]
           /\ last'.err = "NoAuction"
           /\ last'.out = <<>>]_vars

C9_Witness ==
    /\ last.op = "bid"
    /\ last.err = "NoAuction"
    /\ last.value >= MintPrice
    /\ items[last.to].directSold
    /\ IsOwned(items[last.to])
    /\ items[last.to].owner = Deployer
    /\ items[last.to].auctionConfig
         = createDirectMintAuctionConfig(Deployer, MintPrice)

\* C10: a payment reaching an item whose auction is Active (open, now not
\* past auctionEnd) is accepted exactly when amount >= initialMinBid and
\* amount * 100 >= previousBid * (100 + minBidStepPercent); accepted, it is
\* the recorded bid with timestamp now; refused (BidTooLow), bidder, amount,
\* timestamp, auctionEnd and owner stay as they were.
C10_BidThreshold ==
    [][\A a \in ItemAddrs :
         (/\ IsActive(items[a])
          /\ now <= items[a].endTime
          /\ now' = now
          /\ last'.op = "bid"
          /\ last'.to = a) =>
           LET p == AuctionParamsOf(items[a].auctionConfig)
               reaches ==
                 /\ last'.value >= p.initialMinBid
                 /\ last'.value * 100
                      >= items[a].bid * (100 + OrDefault(p.minBidStep, 5))
           IN  /\ reaches <=> last'.err = "ok"
               /\ reaches /\ IsActive(items'[a]) =>
                    /\ items'[a].bid = last'.value
                    /\ items'[a].bidTs = now
                    /\ items'[a].bidder \in Bidders
               /\ ~reaches =>
                    /\ last'.err = "BidTooLow"
                    /\ items'[a].bidder = items[a].bidder
                    /\ items'[a].bid = items[a].bid
                    /\ items'[a].bidTs = items[a].bidTs
                    /\ items'[a].endTime = items[a].endTime
                    /\ items'[a].owner = items[a].owner
                    /\ items'[a] = items[a]]_vars

\* A bid of 104 over a standing bid of 100 at a 5 percent step was refused.
C10_Witness ==
    /\ last.op = "bid"
    /\ last.err = "BidTooLow"
    /\ last.value = 104
    /\ IsActive(items[last.to])
    /\ items[last.to].bid = 100
    /\ items[last.to].bidder # AddrNone
    /\ now <= items[last.to].endTime

\* A step in which the item at a answers a wallet's message of kind op.
Sent(op, a) == now' = now /\ last'.op = op /\ last'.to = a

\* The auction of an item is live: open and not past its end.
Live(it, t) == IsActive(it) /\ t <= it.endTime

\* C11 as stated: in every live auction with initialMinBid = 100 and
\* minBidStepPercent = 5, whatever has been bid so far, a bid of 104 is
\* rejected and a bid of 105 is accepted.
C11_StepAsStated ==
    [][\A a \in ItemAddrs :
         (/\ Live(items[a], now)
          /\ AuctionParamsOf(items[a].auctionConfig).initialMinBid = 100
          /\ AuctionParamsOf(items[a].auctionConfig).minBidStep = <<5>>
          /\ Sent("bid", a)) =>
           /\ last'.value = 104 => last'.err = "BidTooLow"
           /\ last'.value = 105 => last'.err = "ok"]_vars

\* C11: in a live auction with initialMinBid = 100 and minBidStepPercent = 5
\* whose recorded bid is 100, a bid of 104 is rejected (too low: 105 is
\* required) and leaves the item as it is, and a bid of 105 is accepted and
\* becomes the bid of the item (the recorded bid, or the winning bid if it
\* ends the auction).
C11_StepOverStandingBid ==
    [][\A a \in ItemAddrs :
         (/\ Live(items[a], now)
          /\ AuctionParamsOf(items[a].auctionConfig).initialMinBid = 100
          /\ AuctionParamsOf(items[a].auctionConfig).minBidStep = <<5>>
          /\ items[a].bid = 100
          /\ Sent("bid", a)) =>
           /\ last'.value < 105 =>
                last'.err = "BidTooLow" /\ items'[a] = items[a]
           /\ last'.value = 105 =>
                /\ last'.err = "ok"
                /\ \/ items'[a].bid = 105 /\ items'[a].bidder = last'.caller
                   \/ IsOwned(items'[a]) /\ items'[a].owner = last'.caller]_vars

\* A bid of 105 was accepted over a recorded bid of 100 (refunded in full)
\* at a 5 percent step and stands as the recorded bid.
C11_Witness ==
    /\ last.op = "bid"
    /\ last.err = "ok"
    /\ last.value = 105
    /\ last.out = <<[to |-> Bidder1, amount |-> 100]>>
    /\ IsActive(items[last.to])
    /\ items[last.to].bid = 105
    /\ items[last.to].bidder = Bidder2
    /\ AuctionParamsOf(items[last.to].auctionConfig).minBidStep = <<5>>

\* C12: a bid accepted while another bid is recorded pays the previous
\* bidder back exactly the amount recorded for them, and nothing else is
\* refunded; the item then records the new bidder, the new amount and the
\* time of the new bid, or, when the bid ends the auction, records no bid at
\* all and belongs to the new bidder. The item never holds two bids.
C12_OutbidRefund ==
    [][\A a \in ItemAddrs :
         (/\ Live(items[a], now)
          /\ items[a].bidder # AddrNone
          /\ Sent("bid", a)
          /\ last'.err = "ok") =>
           /\ last'.out # <<>>
           /\ last'.out[1] = [to |-> items[a].bidder, amount |-> items[a].bid]
           /\ IsActive(items'[a]) =>
                /\ last'.out = <<[to |-> items[a].bidder,
                                  amount |-> items[a].bid]>>
                /\ items'[a].bidder = last'.caller
                /\ items'[a].bid = last'.value
                /\ items'[a].bidTs = now
           /\ ~IsActive(items'[a]) =>
                /\ items'[a].owner = last'.caller
                /\ items'[a].bidder = AddrNone
                /\ items'[a].bid = 0]_vars

\* Bidder2's bid of 105 replaced Bidder1's recorded bid of 100, which went
\* back to Bidder1 in full.
C12_Witness ==
    /\ last.op = "bid"
    /\ last.err = "ok"
    /\ last.caller = Bidder2
    /\ last.out = <<[to |-> Bidder1, amount |-> 100]>>
    /\ IsActive(items[last.to])
    /\ items[last.to].bidder = Bidder2
    /\ items[last.to].bid = 105
    /\ items[last.to].bidTs = now

\* C13: when the configured maxBid is above 0 and an accepted bid is at
\* least maxBid, that very step ends the auction: the item is Owned, its
\* owner is the bidder and no auction or bid is left; when maxBid is 0 an
\* accepted bid, whatever its amount, leaves the auction open.
C13_MaxBidEnds ==
    [][\A a \in ItemAddrs :
         (/\ Live(items[a], now)
          /\ Sent("bid", a)
          /\ last'.err = "ok") =>
           LET maxBid ==
                 OrDefault(AuctionParamsOf(items[a].auctionConfig).maxBid, 0)
           IN  /\ (maxBid > 0 /\ last'.value >= maxBid) =>
                    /\ IsOwned(items'[a])
                    /\ items'[a].owner = last'.caller
                    /\ ~items'[a].open
                    /\ items'[a].bidder = AddrNone
               /\ maxBid = 0 =>
                    /\ IsActive(items'[a])
                    /\ items'[a].bidder = last'.caller
                    /\ items'[a].owner = items[a].owner]_vars

\* A bid of 105 in the auction whose maxBid is 105 made the bidder the
\* owner at once.
C13_Witness ==
    /\ last.op = "bid"
    /\ last.err = "ok"
    /\ last.value = 105
    /\ last.caller = Bidder2
    /\ IsOwned(items[last.to])
    /\ items[last.to].owner = Bidder2
    /\ items[last.to].auctionConfig = createAuctionConfig(NewAuctionParams)

\* C14: an accepted bid that leaves the auction open, placed at a time now
\* with now + minExtendSeconds past auctionEnd, sets auctionEnd to exactly
\* now + minExtendSeconds; placed earlier (now + minExtendSeconds not past
\* auctionEnd) it leaves auctionEnd as it was.
C14_Extension ==
    [][\A a \in ItemAddrs :
         (/\ Live(items[a], now)
          /\ Sent("bid", a)
          /\ last'.err = "ok"
          /\ IsActive(items'[a])) =>
           LET ext == OrDefault(
                        AuctionParamsOf(items[a].auctionConfig).minExtendTime,
                        300)
           IN  /\ now + ext > items[a].endTime =>
                    items'[a].endTime = now + ext
               /\ now + ext <= items[a].endTime =>
                    items'[a].endTime = items[a].endTime]_vars

\* A bid in the auction that lasts 1 and extends by 2 moved its end to two
\* past the bid, later than the end it opened with.
C14_Witness ==
    /\ last.op = "bid"
    /\ last.err = "ok"
    /\ IsActive(items[last.to])
    /\ items[last.to].auctionConfig = createAuctionConfig(NewAuctionParams)
    /\ items[last.to].bidTs = now
    /\ items[last.to].endTime = now + 2

\* The item at a has an auction past its end with a bid recorded.
Overdue(a) ==
    Expired(items[a], now) /\ items[a].bidder # AddrNone

\* The auction of the item at a is concluded in this step in favour of the
\* bidder recorded before it.
ConcludesFor(a) ==
    /\ IsOwned(items'[a])
    /\ items'[a].owner = items[a].bidder
    /\ items'[a].bidder = AddrNone
    /\ items'[a].bid = 0

C17_Transfer ==
    [][\A a \in ItemAddrs :
         (IsOwned(items[a]) /\ Sent("transfer", a)) =>
           /\ last'.caller = items[a].owner =>
                /\ last'.err = "ok"
                /\ items'[a].owner = last'.newOwner
                /\ items'[a] = [items[a] EXCEPT !.owner = last'.newOwner]
           /\ last'.caller # items[a].owner =>
                /\ last'.err = "NotAuthorized"
                /\ items'[a] = items[a]]_vars

\* The deployer, owner by direct sale, transferred the item to Bidder2.
C17_Witness ==
    /\ last.op = "transfer"
    /\ last.err = "ok"
    /\ last.caller = Deployer
    /\ last.newOwner = Bidder2
    /\ IsOwned(items[last.to])
    /\ items[last.to].owner = Bidder2
    /\ items[last.to].directSold

\* C18: while an item has a live auction every transfer message, the
\* owner's included, is rejected with AuctionActive and leaves the item (its
\* owner, its auction, its recorded bid) as it was.
C18_NoTransferInAuction ==
    [][\A a \in ItemAddrs :
         (Live(items[a], now) /\ Sent("transfer", a)) =>
           /\ last'.err = "AuctionActive"
           /\ last'.out = <<>>
           /\ items'[a] = items[a]]_vars

\* Bidder1, who owned the item and started the auction, asked for a
\* transfer while the auction was live.
C18_Witness ==
    /\ last.op = "transfer"
    /\ last.err = "AuctionActive"
    /\ last.caller = Bidder1
    /\ items[last.to].seller = Bidder1
    /\ items[last.to].owner = AddrNone
    /\ IsActive(items[last.to])
    /\ now <= items[last.to].endTime

Lifecycle(it) ==
    IF ~it.init THEN "Uninitialized"
    ELSE IF it.open THEN "Active" ELSE "Owned"

\* The step takes the item at a from lifecycle state s to lifecycle state s2.
Moves(a, s, s2) == Lifecycle(items[a]) = s /\ Lifecycle(items'[a]) = s2

\* Owned -> Active happens in an answer to a start-auction message from the
\* owner the item had.
ReopenedByOwner(a) ==
    /\ Moves(a, "Owned", "Active")
    /\ Sent("start_auction", a)
    /\ last'.caller = items[a].owner

\* C20 as stated: between one step and the next the lifecycle state of an
\* item changes only by Uninitialized -> Active, Active -> Owned or, through
\* a start-auction message of the current owner, Owned -> Active.
C20_LifecycleAsStated ==
    [][\A a \in ItemAddrs :
         Lifecycle(items'[a]) # Lifecycle(items[a]) =>
           \/ Moves(a, "Uninitialized", "Active")
           \/ Moves(a, "Active", "Owned")
           \/ ReopenedByOwner(a)]_vars

\* C20: the lifecycle state of an item changes only by Uninitialized ->
\* Active (initialization), Active -> Owned, Owned -> Active through a
\* start-auction message of the current owner, and Uninitialized -> Owned
\* when a direct-sale initialization opens and completes the auction in one
\* step; no step returns an item to Uninitialized.
C20_Lifecycle ==
    [][\A a \in ItemAddrs :
         /\ Lifecycle(items'[a]) # "Uninitialized"
              \/ Lifecycle(items[a]) = "Uninitialized"
         /\ Lifecycle(items'[a]) # Lifecycle(items[a]) =>
              \/ Moves(a, "Uninitialized", "Active") /\ Sent("init", a)
              \/ /\ Moves(a, "Uninitialized", "Owned")
                 /\ Sent("init", a)
                 /\ LET p == AuctionParamsOf(items'[a].auctionConfig)
                    IN  p.maxBid = <<p.initialMinBid>> /\ p.duration = <<0>>
              \/ Moves(a, "Active", "Owned")
              \/ ReopenedByOwner(a)]_vars

\* An item sold directly, put up for auction by its owner and bid on by
\* Bidder2 became Bidder2's when a message found the auction past its end.
C20_Witness ==
    /\ last.err = "AuctionEnded"
    /\ Lifecycle(items[last.to]) = "Owned"
    /\ items[last.to].directSold
    /\ items[last.to].owner = Bidder2
    /\ items[last.to].auctionConfig = createAuctionConfig(NewAuctionParams)

\* The step is the answer of the item at a to a message from a wallet.
FromWallet(a) ==
    \E op \in {"forged_init", "bid", "start_auction", "cancel", "transfer",
                "topup", "unknown"} : Sent(op, a)

\* C21: an uninitialized item has no owner and no auction, and a step
\* changes it only when it is the item's answer to an initialization message
\* whose sender is the item's collection; whatever a wallet sends it, the
\* content of an initialization message included, it stays uninitialized.
C21_OnlyFactoryInitializes ==
    [][\A a \in ItemAddrs :
         ~items[a].init =>
           /\ items[a].owner = AddrNone /\ ~items[a].open
           /\ FromWallet(a) => items'[a] = items[a]
           /\ items'[a] # items[a] =>
                /\ Sent("init", a)
                /\ last'.msg[1].from = CollectionAddress
                /\ CollectionOfItem(a) = CollectionAddress]_vars

\* Bidder1 sent an uninitialized item the content of the initialization
\* message of an accepted voucher; the item is still uninitialized.
C21_Witness ==
    /\ last.op = "forged_init"
    /\ last.err = "NotFromCollection"
    /\ last.caller = Bidder1
    /\ last.msg[1].auctionConfig = createAuctionConfig(AuctionParams)
    /\ items[last.to] = Uninitialized

\* The balance the item keeps of the value of the message just answered.
Kept(l) == IF l.err = "ok" /\ l.out = <<>> THEN l.value ELSE 0

\* The item at a has an owner, and the wallet w is not that owner.
NotTheOwner(a, w) ==
    IsOwned(items[a]) /\ items[a].owner # AddrNone /\ w # items[a].owner

C25_FactoryFrame ==
    [][LET d == CollectionData(collection'.data)
       IN  /\ d.subwalletId = CollectionConfig.subwalletId
           /\ d.publicKey = CollectionConfig.publicKey
           /\ d.collectionContent = CollectionConfig.collectionContent
           /\ d.nftItemCode = CollectionConfig.nftItemCode
           /\ d.royaltyParams = CollectionConfig.royaltyParams
           /\ collection'.data = collection.data
           /\ collection'.balance # collection.balance =>
                /\ last'.op = "collection_topup"
                /\ collection'.balance = collection.balance + last'.value
           /\ last'.op = "mint" => collection' = collection]_vars

\* The collection was topped up with 1.5 TON, accepted a mint submission
\* and has just rejected another.
C25_Witness ==
    /\ collection.balance = 1500
    /\ inflight # {}
    /\ last.op = "mint"
    /\ last.err # "ok"
    /\ collection.data = nftCollectionConfigToCell(CollectionConfig)

\* Two vouchers for one number, the later signed while the earlier was
\* still within its validity.
Overlap(v, w) ==
    /\ v # w
    /\ v.voucher.tokenName = w.voucher.tokenName
    /\ v.issuedAt <= w.issuedAt
    /\ w.issuedAt <= v.voucher.validTill

\* C26: a number handed out by prepareMintMessage is reserved for the
\* validity period of its signature: no two vouchers handed out for the same
\* number overlap, whatever the interleaving of prepareMintMessage and
\* confirmMint.
C26_Reserved ==
    \A v, w \in backend.issued : ~Overlap(v, w)

\* Bidder1 and Bidder2 each hold a voucher for the number 1, signed at the
\* same time, each restricted to its holder.
C26_Witness ==
    \E v, w \in backend.issued :
      /\ Overlap(v, w)
      /\ v.user = Bidder1 /\ w.user = Bidder2
      /\ v.issuedAt = w.issuedAt
      /\ v.voucher.tokenName = <<"1">>
      /\ v.voucher.signedMessage # w.voucher.signedMessage
      /\ backend.minted = {}

\* C27: createRoyaltyParams either throws, which it does whenever the
\* numerator or the denominator is above 65535 (or below 0), or returns a
\* cell that reads back as the numerator, denominator and destination given.
C27_RoyaltyRoundTrip ==
    last.op = "royalty" =>
      LET q == last.params
          inRange == /\ q.numerator \in 0..65535
                     /\ q.denominator \in 0..65535
      IN  /\ last.thrown <=> ~inRange
          /\ ~last.thrown => last.decoded = <<q>>

\* 5/100 to Bidder2 was encoded and read back as 5/100 to Bidder2.
C27_Witness ==
    /\ last.op = "royalty"
    /\ ~last.thrown
    /\ last.decoded = <<[numerator |-> 5, denominator |-> 100,
                          destination |-> Bidder2]>>

\* The total of a sequence of payments.
RECURSIVE SumAmounts(_)
SumAmounts(out) ==
    IF out = <<>> THEN 0 ELSE Head(out).amount + SumAmounts(Tail(out))

\* The item at a answers a message of any kind in this step.
Answers(a) == now' = now /\ last'.to = a

\* The auction of the item at a is concluded in this step: it was open, and
\* the item now has an owner and no auction.
Concludes(a) ==
    /\ items[a].open
    /\ ~items'[a].open
    /\ items'[a].owner # AddrNone

\* C28: the winning bid is paid out exactly once. In the step that concludes
\* an auction, by a bid reaching maxBid or by the first message after the
\* end, the payments besides the refund of an outbid bidder are the royalty
\* share and the beneficiary's part, which add up to exactly the winning
\* bid, and none of them goes to the winner; the concluded item records no
\* bid any more. In every other step nothing but the refund of an outbid
\* bidder is paid, and an item without an open auction pays nothing at all,
\* so no later message pays the bid again or returns it to the winner.
C28_PaidOnce ==
    [][\A a \in ItemAddrs :
         Answers(a) =>
           LET byMaxBid == last'.op = "bid" /\ last'.err = "ok"
               winning == IF byMaxBid THEN last'.value ELSE items[a].bid
               refund == IF byMaxBid THEN Refund(items[a]) ELSE <<>>
               paid == SubSeq(last'.out, Len(refund) + 1, Len(last'.out))
           IN  IF Concludes(a)
               THEN /\ winning > 0
                    /\ SubSeq(last'.out, 1, Len(refund)) = refund
                    /\ paid = Proceeds(items[a], winning)
                    /\ SumAmounts(paid) = winning
                    /\ \A i \in 1..Len(paid) : paid[i].to # items'[a].owner
                    /\ items'[a].bid = 0 /\ items'[a].bidder = AddrNone
               ELSE IF items[a].init /\ items[a].open
               THEN last'.out \in {<<>>, Refund(items[a])}
               ELSE IF items[a].init
               THEN last'.out = <<>>
               ELSE last'.out # <<>> =>
                      /\ last'.op = "init"
                      /\ items'[a].directSold
                      /\ SumAmounts(last'.out) = last'.msg[1].bid]_vars

\* The auction with the royalty of the tests ended with Bidder1 recorded at
\* 100: the first message after the end paid 5 to the royalty receiver and
\* 95 to the beneficiary, and Bidder1 is the owner.
C28_Witness ==
    /\ last.err = "AuctionEnded"
    /\ last.out = <<[to |-> RoyaltyReceiver, amount |-> 5],
                    [to |-> Deployer, amount |-> 95]>>
    /\ IsOwned(items[last.to])
    /\ items[last.to].owner = Bidder1
    /\ items[last.to].bid = 0

\* C29: within one auction the amounts of successively accepted bids are
\* strictly increasing, whatever configuration createAuctionConfig encoded:
\* a bid accepted over a recorded bid is greater than it, and a bid equal to
\* the recorded bid leaves the item, its recorded bidder included, as it was.
C29_StrictlyIncreasing ==
    [][\A a \in ItemAddrs :
         (/\ Live(items[a], now)
          /\ items[a].bidder # AddrNone
          /\ Sent("bid", a)) =>
           /\ last'.err = "ok" => last'.value > items[a].bid
           /\ last'.value = items[a].bid => items'[a] = items[a]]_vars

\* In the auction encoded with minBidStep 0, Bidder2 bid 100 over the 100
\* recorded for Bidder1: the bid was accepted, Bidder1 refunded and Bidder2
\* recorded.
C29_Witness ==
    /\ last.op = "bid" /\ last.err = "ok"
    /\ last.caller = Bidder2 /\ last.value = 100
    /\ last.out = <<[to |-> Bidder1, amount |-> 100]>>
    /\ IsActive(items[last.to])
    /\ items[last.to].auctionConfig = createAuctionConfig(StepParams(<<0>>))
    /\ items[last.to].bidder = Bidder2
    /\ items[last.to].bid = 100

\* C30: in every reachable state an item with an open auction stores no
\* owner, and an item that stores an owner is initialized and has no auction
\* open.
C30_NoOwnerInAuction ==
    \A a \in ItemAddrs :
      /\ items[a].open => items[a].owner = AddrNone
      /\ items[a].owner # AddrNone => IsOwned(items[a])

\* Bidder1 owned the item and started an auction on it, in which Bidder2 is
\* recorded at 100: the item stores no owner.
C30_Witness ==
    \E a \in ItemAddrs :
      /\ IsActive(items[a])
      /\ items[a].seller = Bidder1
      /\ items[a].bidder = Bidder2
      /\ items[a].bid = 100
      /\ items[a].owner = AddrNone

\* The item at a is initialized, has no auction open and stores no owner.
Ownerless(it) == it.init /\ ~it.open /\ it.owner = AddrNone

\* C31: when the first bid, start-auction, cancel or transfer message after
\* auctionEnd reaches an auction in which no bid was accepted, the auction is
\* closed without an owner, nothing is paid out, and the message is not
\* accepted: a payment sent with it is not recorded as a bid and not kept.
\* From then on no message of any kind gives the item an owner or an
\* auction: the ownerless item stays exactly as it is.
C31_ExpiryWithoutBid ==
    [][\A a \in ItemAddrs :
         /\ (/\ Expired(items[a], now)
             /\ items[a].bidder = AddrNone
             /\ \E op \in {"bid", "start_auction", "cancel", "transfer"} :
                   Sent(op, a)) =>
              /\ Ownerless(items'[a])
              /\ items'[a].bidder = AddrNone /\ items'[a].bid = 0
              /\ last'.err = "AuctionEnded"
              /\ last'.out = <<>>
              /\ Kept(last') = 0
         /\ Ownerless(items[a]) => items'[a] = items[a]]_vars

\* Bidder2 paid 105 after the end of an auction Bidder1 had started and
\* nobody had bid in: the payment was not accepted, and the item has neither
\* owner nor bidder nor auction.
C31_Witness ==
    /\ last.op = "bid" /\ last.err = "AuctionEnded"
    /\ last.caller = Bidder2 /\ last.value = 105
    /\ last.out = <<>>
    /\ Ownerless(items[last.to])
    /\ items[last.to].bidder = AddrNone
    /\ items[last.to].auctionConfig = createAuctionConfig(NewAuctionParams)

\* The item at a is initialized in this step by a message whose
\* configuration is not a direct sale.
OpensAuction(a) ==
    /\ Sent("init", a)
    /\ ~items[a].init
    /\ last'.err = "ok"
    /\ ~IsDirectSale(ParseAuctionConfig(last'.msg[1].auctionConfig))

C33_EndNeverDecreases ==
    [][\A a \in ItemAddrs :
         (IsActive(items[a]) /\ IsActive(items'[a])) =>
           /\ items'[a].endTime >= items[a].endTime
           /\ (\/ Sent("topup", a) \/ Sent("unknown", a)
               \/ (Sent("bid", a) /\ last'.err # "ok")) =>
                items'[a].endTime = items[a].endTime]_vars

\* A bid of 100 by Bidder1 at time 1 was accepted in the auction opened at
\* time 1 for two ticks: the end is still 3, not 2.
C33_Witness ==
    /\ last.op = "bid" /\ last.err = "ok" /\ last.caller = Bidder1
    /\ IsActive(items[last.to])
    /\ items[last.to].auctionConfig = createAuctionConfig(AuctionParams)
    /\ items[last.to].bidTs = 1
    /\ items[last.to].endTime = 3
    /\ now = 1

\* What the royalty query answers for the royalty r.
RoyaltyAnswer(r) ==
    [err |-> "ok", numerator |-> r.numerator, denominator |-> r.denominator,
     destination |-> r.destination]

\* The configuration query of it answers with the beneficiary, the least
\* first bid and the maximum bid of the auction parameters p.
AnswersConfig(it, p) ==
    LET config == getTelemintAuctionConfig(it)
    IN  /\ config.err = "ok"
        /\ config.beneficiaryAddress = p.beneficiaryAddress
        /\ config.initialMinBid = p.initialMinBid
        /\ config.maxBid = OrDefault(p.maxBid, 0)

RetryRules ==
    LET calls == Len(last.outcomes)
    IN  /\ calls <= last.maxRetries + 1
        /\ \A i \in 1..(calls - 1) :
             /\ ~last.outcomes[i].ok
             /\ isRateLimitError(last.variant, last.outcomes[i].error)
        /\ last.pc = "sleep" =>
             /\ last.slept = calls - 1
             /\ isRateLimitError(last.variant, last.outcomes[calls].error)
        /\ last.pc = "returned" =>
             /\ last.outcomes[calls].ok
             /\ last.end = <<last.outcomes[calls]>>
             /\ last.slept = calls - 1
        /\ (last.pc = "thrown" /\ calls > 0) =>
             /\ ~last.outcomes[calls].ok
             /\ last.end = <<last.outcomes[calls]>>
             /\ last.slept = calls - 1

\* C35: retryWithBackoff always terminates, by returning or throwing, and
\* at every moment it has called fn at most maxRetries + 1 times, has called
\* it again only after a rate-limit error, returns the value of the first
\* call that succeeds, and rethrows any other error (or the rate-limit
\* error of the last attempt) right after the call that failed, without
\* sleeping or retrying.
C35_RetryTerminates ==
    /\ [](last.op = "retry" => RetryRules)
    /\ <>(last.pc \in {"returned", "thrown"})

\* The script's retryWithBackoff with maxRetries 2 returned the value of its
\* third call after two rate-limit errors and two sleeps.
C35_Witness ==
    /\ last.op = "retry" /\ last.variant = "script"
    /\ last.maxRetries = 2
    /\ last.pc = "returned"
    /\ Len(last.outcomes) = 3
    /\ last.slept = 2
    /\ last.delay = 4000
    /\ ~last.outcomes[1].ok /\ ~last.outcomes[2].ok

\* C36: once the mint transfer is sent, the wait for its confirmation ends
\* in every execution, in the minting script and in the frontend example,
\* also when the wallet seqno never advances.
C36_WaitTerminates ==
    <>(last.pc \in {"done", "failed"})

\* The frontend example has read the seqno, which has not advanced, and is
\* in its loop: every further read of the same seqno leaves it there.
C36_Witness ==
    /\ last.op = "wait" /\ last.variant = "frontend"
    /\ last.pc = "loop"
    /\ last.wallet = last.seqno
    /\ last.currentSeqno = last.seqno

\* C37: createAuctionConfig encodes no configuration whose minBidStep is
\* outside 1..255, 0 included: none of the steps tried outside that range is
\* encoded, and every item initialized from an encoded configuration holds a
\* step within 1..255.
C37_StepValidated ==
    /\ \A st \in BidSteps :
         (st # <<>> /\ st[1] \notin 1..255) =>
           ~createAuctionConfig(StepParams(st)).ok
    /\ \A a \in ItemAddrs :
         items[a].init =>
           ParseAuctionConfig(items[a].auctionConfig).minBidStep \in 1..255

\* The configuration with minBidStep 0 was encoded and signed into a
\* voucher, and the item has just been initialized with it.
C37_Witness ==
    /\ last.op = "init" /\ last.err = "ok"
    /\ createAuctionConfig(StepParams(<<0>>)).ok
    /\ items[last.to].init
    /\ items[last.to].bidder = AddrNone
    /\ ParseAuctionConfig(items[last.to].auctionConfig).minBidStep = 0

\* C40: the message NftItem.sendCancelAuction sends carries the tag the
\* tests send as teleitem_cancel_auction, and the message sendStartAuction
\* sends carries the tag the tests send as teleitem_start_auction, so every
\* item in every state answers the wrapper's message as it answers the
\* tests' message.
C40_WrapperTags ==
    LET config == createAuctionConfig(NewAuctionParams)
    IN  /\ CancelBody.bits[1].n = 924204240
        /\ StartAuctionBody(config).bits[1].n = 1499400124
        /\ \A a \in ItemAddrs, sender \in Senders :
             /\ ItemReceive(items[a], now, sender, StartAuctionFee,
                            CancelBody)
                = ItemReceive(items[a], now, sender, StartAuctionFee,
                              CancelBody_testOp)
             /\ ItemReceive(items[a], now, sender, StartAuctionFee,
                            StartAuctionBody(config))
                = ItemReceive(items[a], now, sender, StartAuctionFee,
                              StartAuctionBody_testOp(config))

\* The owner of an item sent it the tests' start-auction tag and was
\* answered as for an unknown operation, where the wrapper's message would
\* have opened an auction.
C40_Witness ==
    /\ last.op = "unknown" /\ last.err = "UnknownOperation"
    /\ IsOwned(items[last.to])
    /\ last.caller = items[last.to].owner
    /\ ItemReceive(items[last.to], now, last.caller, StartAuctionFee,
                   StartAuctionBody(createAuctionConfig(NewAuctionParams))).err
         = "ok"
    /\ ItemReceive(items[last.to], now, last.caller, StartAuctionFee,
                   StartAuctionBody_testOp(
                     createAuctionConfig(NewAuctionParams))).err
         = "UnknownOperation"

\* C38: in every voucher createUnsignedDeployMessageV2 returns, the 8-bit
\* length field equals the number of UTF-8 bytes of the name stored after
\* it, and for a name of more than 255 bytes it returns none.
C38_NameLenInBytes ==
    last.op = "voucher" =>
      /\ ~last.thrown => last.nameLen[1] = Utf8Length(last.name[1])
      /\ Utf8Length(last.tokenName) > 255 => last.thrown

\* The voucher for the one-character name "é" was encoded: its length field
\* is 1, the name stored has two bytes.
C38_Witness ==
    /\ last.op = "voucher" /\ ~last.thrown
    /\ last.tokenName = <<"é">>
    /\ last.nameLen = <<1>>
    /\ Utf8Length(last.name[1]) = 2

====
